---- MODULE Spec2Model ----
(***************************************************************************)
(* Blob Explorer (site/app.js): the in-memory record list, the folder      *)
(* index built from it, the query that turns the current path, search      *)
(* text, type filter and sort order into a rendered page, and the loads    *)
(* that replace the record list; and the container that serves the site    *)
(* (entrypoint.sh, scripts/generate-config.sh, scripts/update-downloads.sh):*)
(* its environment, the files under /config, /cache and the served          *)
(* directory, and its processes.                                            *)
(*                                                                         *)
(* JavaScript strings are modelled as sequences of one-character strings,  *)
(* so split, join, startsWith, includes, toLowerCase and the regular       *)
(* expressions the code builds are computed character by character.        *)
(***************************************************************************)
EXTENDS Integers, Sequences, FiniteSets, TLC

VARIABLES
    allDownloads,     \* app.js:2   the flat record list
    folderTree,       \* app.js:12  Map: path key -> {folders: Set, files: []}
    fileTypeCache,    \* app.js:13  Map: Url -> type info
    currentPath,      \* app.js:4   array of folder-name segments
    activeFileTypes,  \* app.js:5   Set of accepted type labels
    currentPage,      \* app.js:6
    sortBy,           \* app.js:9
    searchInput,      \* #searchInput.value
    searchTimeout,    \* app.js:1706 TRUE while the debounce timer is pending
    filterDropdown,   \* #fileTypeFilter: the check boxes last built
    listEl,           \* #downloadList: what is rendered
    pagination,       \* #paginationTop/#paginationBottom: display, buttons
    favoritesConfig,  \* window.APP_CONFIG.favorites (app.js:132)
    favoritesTree,    \* #favoritesTree: the favorites last rendered
    startPc,          \* the load started by DOMContentLoaded
    settingsPc,       \* the load started by the settings dialog
    pageUrl,          \* window.location: the parameters q and path
    filteredDownloads,   \* app.js:3
    searchTrackTimeout,  \* app.js:1707 TRUE while the tracking timer is pending
    searchEvent,      \* the last blob-explorer:search event dispatched
    pendingTimers,    \* number of pending timers of setTimeout(applyFilters, 300)
    envVars,          \* the environment of the container
    configDir,        \* /config: config.json and the logo files
    htmlDir,          \* /usr/share/nginx/html: config.js and data/
    cacheDir,         \* /cache: downloads.json and metadata.json
    procs             \* entrypoint.sh, the updater, update-downloads.sh, nginx

vars == <<allDownloads, folderTree, fileTypeCache, currentPath, activeFileTypes,
          currentPage, sortBy, searchInput, searchTimeout, filterDropdown,
          listEl, pagination, favoritesConfig, favoritesTree, startPc, settingsPc,
          pageUrl, filteredDownloads, searchTrackTimeout, searchEvent,
          pendingTimers, envVars, configDir, htmlDir, cacheDir, procs>>

\* the state of the search tracking and the timers of the search box
analytics == <<searchTrackTimeout, searchEvent, pendingTimers>>

\* the state of the container
container == <<envVars, configDir, htmlDir, cacheDir, procs>>

\* the state of the page in the browser
browser == <<allDownloads, folderTree, fileTypeCache, currentPath, activeFileTypes,
             currentPage, sortBy, searchInput, searchTimeout, filterDropdown,
             listEl, pagination, favoritesConfig, favoritesTree, startPc,
             settingsPc, pageUrl, filteredDownloads, searchTrackTimeout,
             searchEvent, pendingTimers>>

-----------------------------------------------------------------------------
(* Bounds of the model *)

\* longest record list drawn from Pool (besides the generated long list)
MaxRecords == 3

\* the largest limit of a pattern favorite
MaxLimit == 2

\* number of records of the generated long list beyond one full page
ExtraItems == 1

\* number of full pages of the longest generated list
FullPages == 2

-----------------------------------------------------------------------------
(* JavaScript string and array primitives *)

Min(a, b) == IF a < b THEN a ELSE b
Max(a, b) == IF a > b THEN a ELSE b

\* Math.ceil(a / b) for a >= 0, b > 0
Ceil(a, b) == (a + b - 1) \div b

\* Array.prototype.slice(start, end), negative indices counted from the end
JsSlice(s, start, end) ==
    LET n  == Len(s)
        lo == IF start < 0 THEN Max(n + start, 0) ELSE Min(start, n)
        hi == IF end < 0 THEN Max(n + end, 0) ELSE Min(end, n)
    IN  IF lo >= hi THEN << >> ELSE SubSeq(s, lo + 1, hi)

Range(s) == {s[i] : i \in 1..Len(s)}

\* String.prototype.split('/')
RECURSIVE SplitFrom(_, _)
SplitFrom(s, acc) ==
    IF s = << >> THEN <<acc>>
    ELSE IF Head(s) = "/" THEN <<acc>> \o SplitFrom(Tail(s), << >>)
    ELSE SplitFrom(Tail(s), Append(acc, Head(s)))

Split(s) == SplitFrom(s, << >>)

\* Array.prototype.join('/')
RECURSIVE Join(_)
Join(parts) ==
    IF parts = << >> THEN << >>
    ELSE IF Len(parts) = 1 THEN parts[1]
    ELSE parts[1] \o <<"/">> \o Join(Tail(parts))

\* String.prototype.startsWith
StartsWith(s, p) == Len(p) <= Len(s) /\ SubSeq(s, 1, Len(p)) = p

\* String.prototype.includes
Includes(s, p) ==
    \E i \in 0..(Len(s) - Len(p)) : SubSeq(s, i + 1, i + Len(p)) = p

Upper == <<"A", "B", "C", "D", "E", "F", "G", "H", "I", "J", "K", "L", "M",
           "N", "O", "P", "Q", "R", "S", "T", "U", "V", "W", "X", "Y", "Z">>
Lower == <<"a", "b", "c", "d", "e", "f", "g", "h", "i", "j", "k", "l", "m",
           "n", "o", "p", "q", "r", "s", "t", "u", "v", "w", "x", "y", "z">>

\* the lower-case and the upper-case form of each letter
LowerOf == [c \in Range(Upper) |-> Lower[CHOOSE i \in 1..Len(Upper) : Upper[i] = c]]
UpperOf == [c \in Range(Lower) |-> Upper[CHOOSE i \in 1..Len(Lower) : Lower[i] = c]]

LowerChar(c) == IF c \in DOMAIN LowerOf THEN LowerOf[c] ELSE c

UpperChar(c) == IF c \in DOMAIN UpperOf THEN UpperOf[c] ELSE c

\* String.prototype.toLowerCase / toUpperCase
ToLowerCase(s) == [i \in 1..Len(s) |-> LowerChar(s[i])] \o << >>
ToUpperCase(s) == [i \in 1..Len(s) |-> UpperChar(s[i])] \o << >>

\* the characters \s matches, among those the model uses
IsSpace(c) == c = " "

\* s.replace(/\s/g, '')
RECURSIVE StripSpaces(_)
StripSpaces(s) ==
    IF s = << >> THEN << >>
    ELSE (IF IsSpace(Head(s)) THEN << >> ELSE <<Head(s)>>) \o StripSpaces(Tail(s))

-----------------------------------------------------------------------------
(* File type classification: getFileExtension, getFileTypeInfo *)

ExtStop == {".", "/", "?", "#"}

\* length of the longest run of characters outside ExtStop from position i
RECURSIVE RunLen(_, _)
RunLen(url, i) ==
    IF i > Len(url) \/ url[i] \in ExtStop THEN 0 ELSE 1 + RunLen(url, i + 1)

\* url.match(/\.([^./?#]+)(?:[?#]|$)/) succeeds at the dot at position i
ExtMatchAt(url, i) ==
    /\ url[i] = "."
    /\ RunLen(url, i + 1) > 0
    /\ LET e == i + RunLen(url, i + 1)
       IN  e = Len(url) \/ url[e + 1] \in {"?", "#"}

getFileExtension(url) ==
    IF \E i \in 1..Len(url) : ExtMatchAt(url, i)
    THEN LET i == CHOOSE k \in 1..Len(url) :
                     /\ ExtMatchAt(url, k)
                     /\ \A j \in 1..(k - 1) : ~ExtMatchAt(url, j)
         IN  ToLowerCase(SubSeq(url, i + 1, i + RunLen(url, i + 1)))
    ELSE <<"u", "n", "k", "n", "o", "w", "n">>

\* the type names of typeMap, as character sequences
PDF         == <<"P", "D", "F">>
ZIP         == <<"Z", "I", "P">>
HTML        == <<"H", "T", "M", "L">>
Text        == <<"T", "e", "x", "t">>
Installer   == <<"I", "n", "s", "t", "a", "l", "l", "e", "r">>
ISO         == <<"I", "S", "O">>
XML         == <<"X", "M", "L">>
JSON        == <<"J", "S", "O", "N">>
DLL         == <<"D", "L", "L">>
Certificate == <<"C", "e", "r", "t", "i", "f", "i", "c", "a", "t", "e">>
Image       == <<"I", "m", "a", "g", "e">>
Word        == <<"W", "o", "r", "d">>
Database    == <<"D", "a", "t", "a", "b", "a", "s", "e">>

\* typeMap of getFileTypeInfo: extension -> name
typeMap ==
    (<<"p", "d", "f">> :> PDF) @@ (<<"z", "i", "p">> :> ZIP)
    @@ (<<"h", "t", "m">> :> HTML) @@ (<<"h", "t", "m", "l">> :> HTML)
    @@ (<<"t", "x", "t">> :> Text)
    @@ (<<"e", "x", "e">> :> Installer) @@ (<<"m", "s", "i">> :> Installer)
    @@ (<<"i", "s", "o">> :> ISO) @@ (<<"x", "m", "l">> :> XML)
    @@ (<<"j", "s", "o", "n">> :> JSON) @@ (<<"d", "l", "l">> :> DLL)
    @@ (<<"c", "e", "r">> :> Certificate)
    @@ (<<"j", "p", "g">> :> Image) @@ (<<"j", "p", "e", "g">> :> Image)
    @@ (<<"p", "n", "g">> :> Image) @@ (<<"g", "i", "f">> :> Image)
    @@ (<<"d", "o", "c">> :> Word) @@ (<<"d", "o", "c", "x">> :> Word)
    @@ (<<"d", "b">> :> Database)

\* the name getFileTypeInfo computes on a cache miss: the mapped name, or the
\* upper-cased extension
ClassifyUrl(url) ==
    LET ext == getFileExtension(url)
    IN  IF ext \in DOMAIN typeMap THEN typeMap[ext] ELSE ToUpperCase(ext)

\* getFileTypeInfo(download).name with the cache as it is
getFileTypeInfo(cache, download) ==
    IF download.Url \in DOMAIN cache THEN cache[download.Url]
    ELSE ClassifyUrl(download.Url)

\* the cache after getFileTypeInfo(download)
CacheAfterLookup(cache, download) ==
    IF download.Url \in DOMAIN cache THEN cache
    ELSE (download.Url :> ClassifyUrl(download.Url)) @@ cache

-----------------------------------------------------------------------------
(* The folder index: buildFolderTree *)

EmptyNode == [folders |-> {}, files |-> << >>]
EmptyMap == [k \in {} |-> EmptyNode]

\* Map.prototype.set
MapSet(m, k, v) == (k :> v) @@ m

\* if (!folderTree.has(k)) folderTree.set(k, {folders: new Set(), files: []})
Ensure(tree, k) == IF k \in DOMAIN tree THEN tree ELSE MapSet(tree, k, EmptyNode)

\* the loop stopping one segment early: the deepest folder is never entered
\* into its parent's folders
RECURSIVE HierarchyLoopShort(_, _, _)
HierarchyLoopShort(tree, parts, i) ==
    IF i >= Len(parts) - 2 THEN tree
    ELSE LET cur       == Join(JsSlice(parts, 0, i))
             child     == parts[i + 1]
             childPath == Join(JsSlice(parts, 0, i + 1))
             t1 == Ensure(tree, cur)
             t2 == MapSet(t1, cur, [t1[cur] EXCEPT !.folders = @ \cup {child}])
             t3 == Ensure(t2, childPath)
         IN  HierarchyLoopShort(t3, parts, i + 1)

\* the for loop of buildFolderTree from index i (0-based, as in the code)
RECURSIVE HierarchyLoop(_, _, _)
HierarchyLoop(tree, parts, i) ==
    IF i >= Len(parts) - 1 THEN tree
    ELSE LET cur       == Join(JsSlice(parts, 0, i))
             child     == parts[i + 1]
             childPath == Join(JsSlice(parts, 0, i + 1))
             t1 == Ensure(tree, cur)
             t2 == MapSet(t1, cur, [t1[cur] EXCEPT !.folders = @ \cup {child}])
             t3 == Ensure(t2, childPath)
         IN  HierarchyLoop(t3, parts, i + 1)

\* the forEach body with unshift in place of push
TreeAddRecordUnshift(tree, download) ==
    LET parts      == Split(download.Name)
        parentPath == Join(JsSlice(parts, 0, -1))
        t1 == Ensure(tree, parentPath)
        t2 == MapSet(t1, parentPath,
                     [t1[parentPath] EXCEPT !.files = <<download>> \o @])
    IN  HierarchyLoop(t2, parts, 0)

\* the body of allDownloads.forEach in buildFolderTree, on the tree
TreeAddRecord(tree, download) ==
    LET parts      == Split(download.Name)
        parentPath == Join(JsSlice(parts, 0, -1))
        t1 == Ensure(tree, parentPath)
        t2 == MapSet(t1, parentPath,
                     [t1[parentPath] EXCEPT !.files = Append(@, download)])
    IN  HierarchyLoop(t2, parts, 0)

\* allDownloads.forEach(...) on the tree: the records in order, the first
\* half (evaluated first) and then the second half
RECURSIVE TreeFold(_, _)
TreeFold(tree, downloads) ==
    IF downloads = << >> THEN tree
    ELSE IF Len(downloads) = 1 THEN TreeAddRecord(tree, downloads[1])
    ELSE LET half == Len(downloads) \div 2
             done == TreeFold(tree, SubSeq(downloads, 1, half))
             rest == SubSeq(downloads, half + 1, Len(downloads))
         IN  IF done = tree THEN TreeFold(tree, rest) ELSE TreeFold(done, rest)

\* the getFileTypeInfo(download) calls of the same forEach, on the cache
RECURSIVE CacheFold(_, _)
CacheFold(cache, downloads) ==
    IF downloads = << >> THEN cache
    ELSE IF Len(downloads) = 1 THEN CacheAfterLookup(cache, downloads[1])
    ELSE LET half == Len(downloads) \div 2
             done == CacheFold(cache, SubSeq(downloads, 1, half))
             rest == SubSeq(downloads, half + 1, Len(downloads))
         IN  IF done = cache THEN CacheFold(cache, rest) ELSE CacheFold(done, rest)

\* folderTree after buildFolderTree() over the record list
buildFolderTree(downloads) == TreeFold(MapSet(EmptyMap, << >>, EmptyNode), downloads)

\* a buildFolderTree without fileTypeCache.clear(), run on a cache that holds
\* an entry of an earlier list
buildFileTypeCacheKept(downloads) ==
    CacheFold([u \in {<<"o", "l", "d", ".", "t", "x", "t">>} |-> Text], downloads)

\* fileTypeCache after buildFolderTree() over the record list
buildFileTypeCache(downloads) == CacheFold([u \in {} |-> << >>], downloads)

-----------------------------------------------------------------------------
(* Regular expressions: new RegExp(pattern, 'i').test(text), for patterns    *)
(* made of literal characters, \c escapes, '.', a postfix '*', a leading '^' *)
(* and a trailing '$'.  The patterns the model draws stay within this part   *)
(* of the syntax.                                                            *)

\* the pattern without a leading '^'
RegexBody(p) == IF p # << >> /\ Head(p) = "^" THEN Tail(p) ELSE p

\* the atoms of a pattern body: [any, ch, star]; a trailing unescaped '$' is
\* the atom [end |-> TRUE]
RECURSIVE RegexAtoms(_)
RegexAtoms(p) ==
    IF p = << >> THEN << >>
    ELSE LET esc  == Head(p) = "\\" /\ Len(p) >= 2
             used == IF esc THEN 2 ELSE 1
             ch   == IF esc THEN p[2] ELSE p[1]
             star == Len(p) > used /\ p[used + 1] = "*"
             rest == SubSeq(p, used + (IF star THEN 2 ELSE 1), Len(p))
         IN  <<[any  |-> ~esc /\ ch = ".",
                end  |-> ~esc /\ ch = "$" /\ Len(p) = 1,
                ch   |-> LowerChar(ch),
                star |-> star]>> \o RegexAtoms(rest)

\* new RegExp(p) throws a SyntaxError: nothing to repeat, an unterminated
\* class or group, or a trailing backslash
RECURSIVE RegexThrows(_)
RegexThrows(p) ==
    IF p = << >> THEN FALSE
    ELSE IF Head(p) = "\\" THEN Len(p) = 1 \/ RegexThrows(SubSeq(p, 3, Len(p)))
    ELSE IF Head(p) \in {"[", "(", ")"} THEN TRUE
    ELSE RegexThrows(Tail(p))

RegexInvalid(p) ==
    \/ RegexThrows(p)
    \/ RegexBody(p) # << >> /\ Head(RegexBody(p)) \in {"*", "?", "+"}

AtomMatches(atom, c) == atom.any \/ atom.ch = LowerChar(c)

\* the atoms from index k match a prefix of text starting at position j
RECURSIVE MatchHere(_, _, _, _)
MatchHere(atoms, k, text, j) ==
    IF k > Len(atoms) THEN TRUE
    ELSE IF atoms[k].end THEN j = Len(text) + 1
    ELSE IF atoms[k].star
         THEN \E n \in 0..(Len(text) + 1 - j) :
                 /\ \A i \in j..(j + n - 1) : AtomMatches(atoms[k], text[i])
                 /\ MatchHere(atoms, k + 1, text, j + n)
    ELSE /\ j <= Len(text)
         /\ AtomMatches(atoms[k], text[j])
         /\ MatchHere(atoms, k + 1, text, j + 1)

\* new RegExp(p, 'i').test(text), for a pattern that compiles
RegexTest(p, text) ==
    LET atoms == RegexAtoms(RegexBody(p))
    IN  IF p # << >> /\ Head(p) = "^" THEN MatchHere(atoms, 1, text, 1)
        ELSE \E j \in 1..(Len(text) + 1) : MatchHere(atoms, 1, text, j)

-----------------------------------------------------------------------------
(* Search matching: wildcardToRegex, matchesSearch *)

RegexSpecial == {".", "+", "^", "$", "{", "}", "(", ")", "|", "[", "]", "\\"}

\* wildcardToRegex without the escaping of the special characters
RECURSIVE wildcardToRegexUnescaped(_)
wildcardToRegexUnescaped(pattern) ==
    IF pattern = << >> THEN << >>
    ELSE (IF Head(pattern) = "*" THEN <<".", "*">>
          ELSE IF Head(pattern) = "?" THEN <<".">>
          ELSE <<Head(pattern)>>) \o wildcardToRegexUnescaped(Tail(pattern))

\* the source text of the RegExp wildcardToRegex builds
RECURSIVE wildcardToRegex(_)
wildcardToRegex(pattern) ==
    IF pattern = << >> THEN << >>
    ELSE (IF Head(pattern) \in RegexSpecial THEN <<"\\", Head(pattern)>>
          ELSE IF Head(pattern) = "*" THEN <<".", "*">>
          ELSE IF Head(pattern) = "?" THEN <<".">>
          ELSE <<Head(pattern)>>) \o wildcardToRegex(Tail(pattern))

matchesSearch(text, searchTerm) ==
    LET isRegex == StartsWith(searchTerm, <<"/">>) \/ StartsWith(searchTerm, <<"^">>)
        regexPattern == IF StartsWith(searchTerm, <<"/">>) THEN Tail(searchTerm)
                        ELSE searchTerm
        hasWildcard == Includes(searchTerm, <<"*">>) \/ Includes(searchTerm, <<"?">>)
    IN  IF isRegex
        THEN IF RegexInvalid(regexPattern) THEN Includes(text, searchTerm)
             ELSE RegexTest(regexPattern, text)
        ELSE IF hasWildcard THEN RegexTest(wildcardToRegex(searchTerm), text)
        ELSE \/ Includes(text, searchTerm)
             \/ Includes(StripSpaces(text), StripSpaces(searchTerm))

-----------------------------------------------------------------------------
(* filterDownloads *)

\* the filter callback without the test of Length
FilterKeepsAnyLength(cache, download, searchTerm, fileTypes, excludeZeroByte) ==
    /\ (fileTypes # {} => getFileTypeInfo(cache, download) \in fileTypes)
    /\ (searchTerm # << >> =>
            matchesSearch(ToLowerCase(download.Name), ToLowerCase(searchTerm)))

\* the filter callback with the type test applied to an empty set as well
FilterKeepsEmptySetToo(cache, download, searchTerm, fileTypes, excludeZeroByte) ==
    /\ ~(excludeZeroByte /\ download.Length <= 0)
    /\ getFileTypeInfo(cache, download) \in fileTypes
    /\ (searchTerm # << >> =>
            matchesSearch(ToLowerCase(download.Name), ToLowerCase(searchTerm)))

\* the callback of downloads.filter in filterDownloads
FilterKeeps(cache, download, searchTerm, fileTypes, excludeZeroByte) ==
    /\ ~(excludeZeroByte /\ download.Length <= 0)
    /\ (fileTypes # {} => getFileTypeInfo(cache, download) \in fileTypes)
    /\ (searchTerm # << >> =>
            matchesSearch(ToLowerCase(download.Name), ToLowerCase(searchTerm)))

filterDownloads(cache, downloads, searchTerm, fileTypes, excludeZeroByte) ==
    LET Keep(d) == FilterKeeps(cache, d, searchTerm, fileTypes, excludeZeroByte)
    IN  SelectSeq(downloads, Keep)

-----------------------------------------------------------------------------
(* Ordering: Array.prototype.sort (stable), sortFiles, the default sort of *)
(* folder names                                                            *)

\* the characters of the model in UTF-16 code unit order
CodeOrder ==
    <<" ", "#", "$", "(", ")", "*", "+", ".", "/",
      "0", "1", "2", "3", "4", "5", "6", "7", "8", "9", "?">>
    \o Upper \o <<"[", "\\", "]", "^">> \o Lower \o <<"{", "|", "}">>

\* the characters of the model in collation order (punctuation, digits,
\* letters), for localeCompare of lower-cased names
CollationOrder ==
    <<" ", ".", "?", "(", ")", "[", "]", "{", "}", "*", "/", "\\", "#", "^",
      "+", "|", "$", "0", "1", "2", "3", "4", "5", "6", "7", "8", "9">>
    \o Lower

Rank(order, c) == CHOOSE i \in 1..Len(order) : order[i] = c

\* negative, zero or positive as a sorts before, with or after b
RECURSIVE LexCompare(_, _, _)
LexCompare(order, a, b) ==
    IF a = << >> THEN (IF b = << >> THEN 0 ELSE -1)
    ELSE IF b = << >> THEN 1
    ELSE IF Head(a) = Head(b) THEN LexCompare(order, Tail(a), Tail(b))
    ELSE Rank(order, Head(a)) - Rank(order, Head(b))

SortKeys == {"date-desc", "date-asc", "size-desc", "size-asc", "name-asc"}

\* a.Name.split('/').pop().toLowerCase()
BaseNameLower(d) == LET parts == Split(d.Name) IN ToLowerCase(parts[Len(parts)])

\* the comparator sortFiles passes to sort() for the sort option
FileCompare(by, a, b) ==
    CASE by = "date-desc" -> b.LastModified - a.LastModified
      [] by = "date-asc"  -> a.LastModified - b.LastModified
      [] by = "size-desc" -> b.Length - a.Length
      [] by = "size-asc"  -> a.Length - b.Length
      [] by = "name-asc"  ->
            LexCompare(CollationOrder, BaseNameLower(a), BaseNameLower(b))
      [] OTHER -> 0

\* sortFiles over the reversed copy: records with equal keys come out in the
\* reverse of their input order
sortFilesReversedTies(by, files) ==
    IF by \notin SortKeys THEN files
    ELSE SortSeq([i \in 1..Len(files) |-> files[Len(files) + 1 - i]],
                 LAMBDA a, b : FileCompare(by, a, b) < 0)

\* sortFiles: a copy sorted by Array.prototype.sort(compare), which is stable
\* (as SortSeq is); an unknown option leaves the order as it is
sortFiles(by, files) ==
    IF by \notin SortKeys THEN files
    ELSE SortSeq(files, LAMBDA a, b : FileCompare(by, a, b) < 0)

\* the folder names in collation order, as localeCompare would sort them
RECURSIVE SortNamesCollated(_)
SortNamesCollated(names) ==
    IF names = {} THEN << >>
    ELSE LET first == CHOOSE n \in names :
                         \A m \in names :
                            LexCompare(CollationOrder, ToLowerCase(n), ToLowerCase(m)) <= 0
         IN  <<first>> \o SortNamesCollated(names \ {first})

\* Array.from(set).sort(): folder names in code unit order
RECURSIVE SortNames(_)
SortNames(names) ==
    IF names = {} THEN << >>
    ELSE LET first == CHOOSE n \in names :
                         \A m \in names : LexCompare(CodeOrder, n, m) <= 0
         IN  <<first>> \o SortNames(names \ {first})

-----------------------------------------------------------------------------
(* Browsing: folderHasMatchingFiles, displayDownloads, getCurrentViewItemCount *)

itemsPerPage == 100

\* parentPath ? `${parentPath}/${folderName}` : folderName
ChildPath(parentPath, folderName) ==
    IF parentPath # << >> THEN parentPath \o <<"/">> \o folderName ELSE folderName

\* the some() callback without the test of the type filter
FileCountsAnyType(cache, types, download) == download.Length > 0

\* the callback of node.files.some in checkNode
FileCounts(cache, types, download) ==
    IF download.Length <= 0 THEN FALSE
    ELSE IF types # {} THEN getFileTypeInfo(cache, download) \in types
    ELSE TRUE

\* checkNode without the loop over the subfolders
CheckNodeShallow(tree, cache, types, path) ==
    IF path \notin DOMAIN tree THEN FALSE
    ELSE \E i \in 1..Len(tree[path].files) :
            FileCounts(cache, types, tree[path].files[i])

\* checkNode(path) of folderHasMatchingFiles
RECURSIVE checkNode(_, _, _, _)
checkNode(tree, cache, types, path) ==
    IF path \notin DOMAIN tree THEN FALSE
    ELSE LET node == tree[path]
         IN  \/ \E i \in 1..Len(node.files) : FileCounts(cache, types, node.files[i])
             \/ \E subfolder \in node.folders :
                   checkNode(tree, cache, types, ChildPath(path, subfolder))

\* a folderHasMatchingFiles that keeps every folder of the node
folderHasAnyFiles(tree, cache, types, parentPath, folderName) ==
    ChildPath(parentPath, folderName) \in DOMAIN tree

folderHasMatchingFiles(tree, cache, types, parentPath, folderName) ==
    checkNode(tree, cache, types, ChildPath(parentPath, folderName))

\* the folder names displayDownloads keeps: filteredFolders
FilteredFolders(tree, cache, types, pathKey) ==
    {f \in tree[pathKey].folders : folderHasMatchingFiles(tree, cache, types, pathKey, f)}

FolderItem(name) == [type |-> "folder", name |-> name]
FileItem(download) == [type |-> "file", data |-> download]

\* allItems of displayDownloads for an existing node: the kept folders in
\* sort() order, then the sorted files
BrowseItems(tree, cache, types, by, pathKey) ==
    LET files   == filterDownloads(cache, tree[pathKey].files, << >>, types, TRUE)
        folders == SortNames(FilteredFolders(tree, cache, types, pathKey))
        sorted  == sortFiles(by, files)
    IN  [i \in 1..Len(folders) |-> FolderItem(folders[i])]
        \o [i \in 1..Len(sorted) |-> FileItem(sorted[i])]

\* the sorted files renderSearchResults pages through, as items
SearchItems(all, cache, types, by, searchTerm) ==
    LET sorted == sortFiles(by, filterDownloads(cache, all, searchTerm, types, TRUE))
    IN  [i \in 1..Len(sorted) |-> FileItem(sorted[i])] \o << >>

\* the page slice with the end index one short
PageItemsShort(items, page) ==
    LET totalItems == Len(items)
        startIdx   == (page - 1) * itemsPerPage
        endIdx     == Min(startIdx + itemsPerPage - 1, totalItems)
    IN  JsSlice(items, startIdx, endIdx)

\* pageItems: items.slice(startIdx, endIdx)
PageItems(items, page) ==
    LET totalItems == Len(items)
        startIdx   == (page - 1) * itemsPerPage
        endIdx     == Min(startIdx + itemsPerPage, totalItems)
    IN  JsSlice(items, startIdx, endIdx)

\* Math.ceil(totalItems / itemsPerPage)
TotalPages(totalItems) == Ceil(totalItems, itemsPerPage)

\* the pagination controls while they are not displayed: the buttons take
\* no click then, and updatePagination sets their disabled state whenever it
\* displays them, so the state they keep while hidden is left out
PaginationHidden == [shown |-> FALSE, atFirst |-> TRUE, atLast |-> TRUE]

\* the pagination controls after updatePagination: hidden for at most one
\* page, else displayed with first/prev disabled on page 1 and next/last
\* disabled on the last page
updatePagination(page, totalPages) ==
    IF totalPages <= 1 THEN PaginationHidden
    ELSE [shown |-> TRUE, atFirst |-> page = 1, atLast |-> page = totalPages]

Loading  == [kind |-> "loading", items |-> << >>, total |-> 0]
LoadError == [kind |-> "error", items |-> << >>, total |-> 0]

\* what one list of items renders as: the page slice, or the message for an
\* empty result, and the display of the pagination controls
RenderItems(items, page, emptyKind) ==
    IF Len(items) = 0
    THEN [list |-> [kind |-> emptyKind, items |-> << >>, total |-> 0],
          pag  |-> updatePagination(page, 0)]
    ELSE [list |-> [kind |-> "items", items |-> PageItems(items, page),
                    total |-> Len(items)],
          pag  |-> updatePagination(page, TotalPages(Len(items)))]

\* displayDownloads treating a missing node as an empty folder
displayDownloadsMissingAsEmpty(all, tree, cache, path, types, page, by, search, pag) ==
    LET searchTerm == ToLowerCase(search)
        pathKey    == Join(path)
    IN  IF searchTerm # << >>
        THEN RenderItems(SearchItems(all, cache, types, by, searchTerm), page, "noMatch")
        ELSE IF pathKey \notin DOMAIN tree
        THEN RenderItems(<< >>, page, "noResults")
        ELSE RenderItems(BrowseItems(tree, cache, types, by, pathKey), page,
                         "noResults")

\* displayDownloads(): #downloadList and the pagination display it leaves
displayDownloads(all, tree, cache, path, types, page, by, search, pag) ==
    LET searchTerm == ToLowerCase(search)
        pathKey    == Join(path)
    IN  IF searchTerm # << >>
        THEN RenderItems(SearchItems(all, cache, types, by, searchTerm), page, "noMatch")
        ELSE IF pathKey \notin DOMAIN tree
        THEN [list |-> [kind |-> "notFound", items |-> << >>, total |-> 0],
              pag  |-> pag]
        ELSE RenderItems(BrowseItems(tree, cache, types, by, pathKey), page,
                         "noResults")

\* the count with every folder of the node, listed or not
ViewItemCountAllFolders(all, tree, cache, path, types, search) ==
    LET pathKey == Join(path)
    IN  IF search # << >>
        THEN Len(filterDownloads(cache, all, search, types, TRUE))
        ELSE IF pathKey \notin DOMAIN tree THEN 0
        ELSE Cardinality(tree[pathKey].folders)
             + Len(filterDownloads(cache, tree[pathKey].files, << >>, types, TRUE))

getCurrentViewItemCount(all, tree, cache, path, types, search) ==
    LET pathKey == Join(path)
    IN  IF search # << >>
        THEN Len(filterDownloads(cache, all, search, types, TRUE))
        ELSE IF pathKey \notin DOMAIN tree THEN 0
        ELSE Cardinality(FilteredFolders(tree, cache, types, pathKey))
             + Len(filterDownloads(cache, tree[pathKey].files, << >>, types, TRUE))

\* sortedTypes of updateFileTypeFilterCounts: the type names with a check box
updateFileTypeFilterCounts(all, cache, search) ==
    LET matchingFiles == filterDownloads(cache, all, search, {}, TRUE)
    IN  [built |-> TRUE,
         types |-> {getFileTypeInfo(cache, matchingFiles[i]) :
                        i \in 1..Len(matchingFiles)}]

-----------------------------------------------------------------------------
(* Favorites: getAllFolderPaths, matchFolders, renderFavorites *)

\* the order of two strings that differ in case only: at the first
\* difference the lower-case letter comes first
RECURSIVE CaseCompare(_, _)
CaseCompare(a, b) ==
    IF a = << >> \/ b = << >> THEN 0
    ELSE IF Head(a) = Head(b) THEN CaseCompare(Tail(a), Tail(b))
    ELSE IF Head(a) \in DOMAIN UpperOf THEN -1 ELSE 1

\* String.prototype.localeCompare: the collation order of the letters,
\* digits and punctuation first, the case of the letters after it
TieBreak(c, a, b) == IF c # 0 THEN c ELSE CaseCompare(a, b)

localeCompare(a, b) ==
    TieBreak(LexCompare(CollationOrder, ToLowerCase(a), ToLowerCase(b)), a, b)

\* getAllFolderPaths(): every proper prefix of a record name, as a path
getAllFolderPaths(downloads) ==
    UNION {LET parts == Split(downloads[n].Name)
           IN  {Join(JsSlice(parts, 0, i)) : i \in 1..(Len(parts) - 1)}
           : n \in 1..Len(downloads)}

\* the result of the first alternative the matcher tries, or of the next one
\* when the first fails (-1)
OrElse(first, next) == IF first # -1 THEN first ELSE next

\* the position after the match the backtracking matcher finds first for the
\* atoms from index k at position j, or -1; with slashOrEnd the match must be
\* followed by '/' or by the end of the text, as with the suffix '(?:/|$)'
RECURSIVE MatchEnd(_, _, _, _, _)
RECURSIVE StarEnd(_, _, _, _, _)
MatchEnd(atoms, k, text, j, slashOrEnd) ==
    IF k > Len(atoms)
    THEN IF slashOrEnd /\ j <= Len(text) /\ text[j] # "/" THEN -1 ELSE j
    ELSE IF atoms[k].end
    THEN IF j = Len(text) + 1 THEN MatchEnd(atoms, k + 1, text, j, slashOrEnd) ELSE -1
    ELSE IF atoms[k].star
    THEN StarEnd(atoms, k, text, j, slashOrEnd)
    ELSE IF j <= Len(text) /\ AtomMatches(atoms[k], text[j])
    THEN MatchEnd(atoms, k + 1, text, j + 1, slashOrEnd)
    ELSE -1

\* a starred atom is greedy: one more character first, the rest of the
\* pattern when that fails
StarEnd(atoms, k, text, j, slashOrEnd) ==
    IF j <= Len(text) /\ AtomMatches(atoms[k], text[j])
    THEN OrElse(StarEnd(atoms, k, text, j + 1, slashOrEnd),
                MatchEnd(atoms, k + 1, text, j, slashOrEnd))
    ELSE MatchEnd(atoms, k + 1, text, j, slashOrEnd)

\* the leftmost match among the start positions j..last: found, match.index
\* and match.index + match[0].length
RECURSIVE MatchFrom(_, _, _, _, _)
RECURSIVE MatchAt(_, _, _, _, _, _)
MatchFrom(atoms, text, j, last, slashOrEnd) ==
    IF j > last THEN [found |-> FALSE, index |-> 0, end |-> 0]
    ELSE MatchAt(atoms, text, j, last, slashOrEnd,
                 MatchEnd(atoms, 1, text, j, slashOrEnd))

MatchAt(atoms, text, j, last, slashOrEnd, e) ==
    IF e # -1 THEN [found |-> TRUE, index |-> j - 1, end |-> e - 1]
    ELSE MatchFrom(atoms, text, j + 1, last, slashOrEnd)

\* text.match(new RegExp(p, 'i')), for a pattern that compiles
RegexExec(p, text, slashOrEnd) ==
    MatchFrom(RegexAtoms(RegexBody(p)), text, 1,
              IF p # << >> /\ Head(p) = "^" THEN 1 ELSE Len(text) + 1, slashOrEnd)

\* Array.from(matchedPaths.keys()).sort(compare)
RECURSIVE SortPaths(_, _)
SortPaths(paths, sortOrder) ==
    IF paths = {} THEN << >>
    ELSE LET first == CHOOSE a \in paths :
                         \A b \in paths \ {a} :
                            localeCompare(IF sortOrder = "desc" THEN b ELSE a,
                                          IF sortOrder = "desc" THEN a ELSE b) < 0
         IN  <<first>> \o SortPaths(paths \ {first}, sortOrder)

\* the keys matchFolders collects from the folder paths: of each folder the
\* adjusted pattern accepts, the part up to the end of the first match of
\* the pattern (which matches wherever the adjusted pattern does)
folderMatches(downloads, pattern) ==
    {SubSeq(f, 1, RegexExec(pattern, f, FALSE).end) :
        f \in {g \in getAllFolderPaths(downloads) :
                  RegexExec(pattern, g, ~Includes(pattern, <<"$">>)).found}}

\* the keys matchFolders collects from the file paths: the parent folder,
\* unless it is the root, of each record whose name the pattern matches
fileParentMatches(downloads, pattern) ==
    {Join(JsSlice(Split(downloads[n].Name), 0, -1)) :
        n \in {m \in 1..Len(downloads) :
                  RegexTest(pattern, downloads[m].Name)}} \ {<< >>}

\* matchFolders with the paths always in descending order
matchFoldersOneOrder(downloads, pattern, limit, sortOrder) ==
    LET folders == folderMatches(downloads, pattern)
        matchedPaths == IF folders = {} THEN fileParentMatches(downloads, pattern)
                        ELSE folders
    IN  JsSlice(SortPaths(matchedPaths, "desc"), 0, limit)

\* matchFolders(pattern, limit, sortOrder)
matchFolders(downloads, pattern, limit, sortOrder) ==
    LET folders == folderMatches(downloads, pattern)
        matchedPaths == IF folders = {} THEN fileParentMatches(downloads, pattern)
                        ELSE folders
    IN  JsSlice(SortPaths(matchedPaths, sortOrder), 0, limit)

\* one entry of the favorites configuration
Favorite(type, path, query, pattern, limit, sortOrder) ==
    [type |-> type, path |-> path, query |-> query, pattern |-> pattern,
     limit |-> limit, sortOrder |-> sortOrder]

\* one rendered favorite: what a click on it does
FavoriteItem(type, path, query) == [type |-> type, path |-> path, query |-> query]

\* the items renderFavorites appends for one entry of the configuration
RenderFavorite(favorite, downloads) ==
    IF favorite.type = "search"
    THEN <<FavoriteItem("search", << >>,
                        IF StartsWith(favorite.query, <<"^">>) THEN favorite.query
                        ELSE <<"^">> \o favorite.query)>>
    ELSE IF favorite.type = "folder"
    THEN <<FavoriteItem("folder", favorite.path, << >>)>>
    ELSE LET matches == matchFolders(downloads, favorite.pattern, favorite.limit,
                                     favorite.sortOrder)
         IN  [i \in 1..Len(matches) |->
                 FavoriteItem("folder", Split(matches[i]), << >>)]

\* renderFavorites(): the system favorites of the configuration, in order
\* (the favorites pinned by the user, kept in localStorage, are left out)
RECURSIVE renderFavorites(_, _)
renderFavorites(config, downloads) ==
    IF config = << >> THEN << >>
    ELSE RenderFavorite(Head(config), downloads)
         \o renderFavorites(Tail(config), downloads)

-----------------------------------------------------------------------------
(* The container: generate-config.sh *)

\* the Dockerfile values of the four variables (generate-config.sh:19-24)
DOCKERFILE_DEFAULTS ==
    [SITE_TITLE |-> "Blob Explorer",
     SITE_DESCRIPTION |-> "Browse and download files from Azure Blob Storage",
     LOGO_URL |-> "", LOGO_FILE |-> ""]

\* Python's 'a or b' over strings; None is the empty string
OrElseStr(a, b) == IF a # "" THEN a ELSE b

\* a get_env_override that returns every value that is set
get_env_overrideAnyValue(env, var) == env[var]

\* get_env_override(env_var)
get_env_override(env, var) ==
    IF env[var] = DOCKERFILE_DEFAULTS[var] THEN "" ELSE env[var]

\* config.get(key), config being {} when there is no config file
ConfigGet(dir, key) == IF dir.config.state = "ok" THEN dir.config[key] ELSE ""

\* the values read_config prints as window.APP_CONFIG; the extension of the
\* copied logo file is left out of the served path
read_config(env, dir) ==
    [present |-> TRUE,
     siteTitle |-> OrElseStr(OrElseStr(get_env_override(env, "SITE_TITLE"),
                                       ConfigGet(dir, "siteTitle")),
                             "Blob Explorer"),
     siteDescription |->
         OrElseStr(OrElseStr(get_env_override(env, "SITE_DESCRIPTION"),
                             ConfigGet(dir, "siteDescription")),
                   "Browse and download files from Azure Blob Storage"),
     logoUrl |-> IF OrElseStr(get_env_override(env, "LOGO_FILE"),
                              ConfigGet(dir, "logoFile")) \in dir.logos
                 THEN "assets/custom-logo"
                 ELSE OrElseStr(get_env_override(env, "LOGO_URL"),
                                ConfigGet(dir, "logoUrl")),
     logoFile |-> OrElseStr(get_env_override(env, "LOGO_FILE"),
                            ConfigGet(dir, "logoFile"))]

\* no config.js written
NoConfigJs ==
    [present |-> FALSE, siteTitle |-> "", siteDescription |-> "", logoUrl |-> "",
     logoFile |-> ""]

\* the content of a config.json
ConfigFile(state, title, description, logoUrl, logoFile) ==
    [state |-> state, siteTitle |-> title, siteDescription |-> description,
     logoUrl |-> logoUrl, logoFile |-> logoFile]

\* /config-defaults/config.default.json, taken to set none of the four values
DefaultConfig == ConfigFile("ok", "", "", "", "")

-----------------------------------------------------------------------------
(* The container: the files of update-downloads.sh and of the entrypoint *)

\* a downloads.json or metadata.json: the update that produced it (its
\* lastUpdated), the BASE_URL it was fetched from, and whether it parses
DataFile(v, fetchedFrom, valid) ==
    [present |-> TRUE, v |-> v, url |-> fetchedFrom, valid |-> valid]

NoFile == [present |-> FALSE, v |-> 0, url |-> "", valid |-> FALSE]

\* an is_cache_url_mismatch that takes a cache without a recorded baseUrl
\* for one of another URL
is_cache_url_mismatchUnrecorded(cache, env) == cache.metadata.url # env.BASE_URL

\* is_cache_url_mismatch
is_cache_url_mismatch(cache, env) ==
    /\ cache.metadata.present
    /\ cache.metadata.url # ""
    /\ cache.metadata.url # env.BASE_URL

\* update-downloads.sh exits with the code given: the entrypoint (set -e)
\* exits with it or goes on, the updater logs a failure and sleeps
UpdateExits(p, code) ==
    IF p.caller = "entry"
    THEN [p EXCEPT !.update = "none", !.caller = "none",
                   !.entry = IF code = 0 THEN "spawn" ELSE "exited"]
    ELSE [p EXCEPT !.update = "none", !.caller = "none", !.updater = "sleep"]

\* the container as it serves the site: started without a cache, one update
\* done
ContainerServing ==
    /\ envVars = [BASE_URL |-> "u"] @@ DOCKERFILE_DEFAULTS
    /\ configDir = [config |-> DefaultConfig, logos |-> {}]
    /\ htmlDir = [configJs |-> read_config([BASE_URL |-> "u"] @@ DOCKERFILE_DEFAULTS,
                                           [config |-> DefaultConfig, logos |-> {}]),
                  downloads |-> DataFile(1, "u", TRUE),
                  metadata |-> DataFile(1, "u", TRUE), tmp |-> NoFile]
    /\ cacheDir = [downloads |-> DataFile(1, "u", TRUE),
                   metadata |-> DataFile(1, "u", TRUE)]
    /\ procs = [entry |-> "nginx", updater |-> "sleep", update |-> "none",
                caller |-> "none", nginx |-> TRUE, needsUpdate |-> FALSE,
                fetched |-> 1]

\* no blob-explorer:search event dispatched yet
NoEvent == [query |-> << >>, resultCount |-> 0]

-----------------------------------------------------------------------------
(* The records, record lists and user inputs the model draws from *)

\* the storage URL the record URLs start with
BaseUrl == <<"h", ".", "n">>

\* one record of the listing; Url is `${baseUrl}/${name}` (fetchBlobsFromUrl)
Rec(name, length, lastModified) ==
    [Name |-> name, Url |-> BaseUrl \o <<"/">> \o name,
     Length |-> length, LastModified |-> lastModified]

Pool ==
    << Rec(<<"a", "/", "b", "/", "x", ".", "p", "d", "f">>, 5, 3),
       Rec(<<"a", "/", "c", "/", "y", ".", "z", "i", "p">>, 7, 1),
       Rec(<<"a", "/", "c", "/", "e", ".", "z", "i", "p">>, 0, 2),
       Rec(<<"r", ".", "t", "x", "t">>, 2, 3),
       Rec(<<"B", "/", "x", ".", "p", "d", "f">>, 5, 1) >>

\* the lists of n distinct records of the pool, in every order
ListsOfLen(n) ==
    {l \in [1..n -> Range(Pool)] : \A i, j \in 1..n : i < j => l[i] # l[j]}

SmallLists == UNION {ListsOfLen(n) : n \in 0..MaxRecords}

Digit == <<"0", "1", "2", "3", "4", "5", "6", "7", "8", "9">>

\* a listing of n records in one folder: g/001.pdf, g/002.zip, g/003.zip, ...
LongListOf(n) ==
    [i \in 1..n |->
        Rec(<<"g", "/", Digit[((i \div 100) % 10) + 1], Digit[((i \div 10) % 10) + 1],
              Digit[(i % 10) + 1], ".">>
            \o (IF i = 1 THEN <<"p", "d", "f">> ELSE <<"z", "i", "p">>),
            i, i % 3)]

\* a listing of more than one page
LongList == LongListOf(itemsPerPage + ExtraItems)

\* a listing without folders: one file and one empty file
ShortList ==
    << Rec(<<"r", ".", "z", "i", "p">>, 5, 3),
       Rec(<<"e", ".", "z", "i", "p">>, 0, 2) >>

\* the listings a load can bring (loadData also an empty one)
DataSets == {ShortList, LongList}

\* activeFileTypes as declared
DefaultFileTypes == {Installer, PDF, ISO, ZIP}

\* the listings the view specification starts from
ViewLists ==
    {ShortList} \cup {LongListOf(k * itemsPerPage + ExtraItems) : k \in 1..FullPages}

\* paths, search texts and type filters the query specification draws
QueryPaths ==
    {<< >>, <<<<"a">>>>, <<<<"a">>, <<"c">>>>, <<<<"q">>>>}

QuerySearches == {<< >>, <<"*">>, <<"y">>}

QueryTypes == {{}, {ZIP}, {PDF, Text}, DefaultFileTypes}

\* what the user types into the search box
SearchTexts == {<<"^", "r">>}

\* the paths of the folder favorites (config or pinned)
FavoritePaths == {<<<<"g">>>>}

\* the queries of the search favorites of the config
FavoriteQueries == {<<"r">>}

\* the favorites configuration of the session: the folder favorite and the
\* search favorite above
DefaultFavorites ==
    << Favorite("folder", <<<<"g">>>>, << >>, << >>, 0, "desc"),
       Favorite("search", << >>, <<"r">>, << >>, 0, "desc") >>

\* the patterns of the pattern favorites
FavoritePatterns ==
    { <<"^", "a">>, <<".", "$">>, <<"a", "/", ".">>, <<"b">>, <<"x">>,
      <<"/">>, <<"r">>, <<"a", ".", "*">>, <<"a", "/", "*">> }

\* the sort options the user picks
SortInputs == {"date-desc", "size-asc"}

\* the view the page URL asks for: [path, q]
UrlStates ==
    {[path |-> << >>, q |-> << >>], [path |-> <<"g">>, q |-> << >>],
     [path |-> << >>, q |-> <<"^", "r">>]}

\* record names and search texts the matching specification draws
MatchNames ==
    { <<"a", "/", " ", "[", "b">>, <<"A", "x", "B", ".", "c">>, <<"a", " ", "b">>,
      <<"a", "b", "c">>, <<"a", "/", "[", "b">> }

MatchNeedles ==
    { <<"/", "[">>, <<"/", " ", "[">>, <<"^", "[">>, <<"^", "a", "(">>, <<"/", "*">>,
      <<"a", "*", "c">>, <<"?", "b">>, <<"x", ".", "?">>, <<"*">>, <<"A", "?", "b">>,
      <<"b", "*", "a">>, <<"a", "b">>, <<"a", " ", "b">>, <<"^", "a">>,
      <<"/", "b", "$">>, <<"/", ".">> }

-----------------------------------------------------------------------------
(* The state after DOMContentLoaded: the view initializeUrlState read from  *)
(* the URL, and the first load waiting at its first await                  *)

Init ==
    /\ allDownloads = << >>
    /\ folderTree = EmptyMap
    /\ fileTypeCache = buildFileTypeCache(<< >>)
    /\ activeFileTypes = DefaultFileTypes
    /\ currentPage = 1
    /\ sortBy = "date-desc"
    /\ \E u \in UrlStates :
          /\ searchInput = u.q
          /\ currentPath = IF u.q # << >> THEN << >>
                           ELSE SelectSeq(Split(u.path), LAMBDA seg : Len(seg) > 0)
    /\ searchTimeout = FALSE
    /\ filterDropdown = [built |-> FALSE, types |-> {}]
    /\ listEl = Loading
    /\ pagination = PaginationHidden
    /\ favoritesConfig = DefaultFavorites
    /\ favoritesTree = << >>
    /\ startPc \in {"customFetch", "fetch"}
    /\ settingsPc = "idle"
    /\ pageUrl = [q |-> searchInput,
                  path |-> IF searchInput # << >> THEN << >> ELSE Join(currentPath)]
    /\ filteredDownloads = << >>
    /\ searchTrackTimeout = FALSE
    /\ pendingTimers = 0
    /\ searchEvent = NoEvent
    /\ ContainerServing

-----------------------------------------------------------------------------
(* Rendering steps shared by the handlers *)

\* displayDownloads() with the values the handler leaves
Show(all, tree, cache, path, types, page, by, search) ==
    \E r \in {displayDownloads(all, tree, cache, path, types, page, by, search,
                              pagination)} :
        /\ listEl' = r.list
        /\ pagination' = r.pag

\* the URL navigateToPath passes to pushState: q deleted, path set for a
\* folder and deleted for the root (an absent parameter is the empty string)
UrlPushed(path) ==
    [q |-> << >>, path |-> IF Len(path) > 0 THEN Join(path) ELSE << >>]

\* the URL applyFilters passes to replaceState, from window.location
UrlApplied(location, path, search) ==
    IF ToLowerCase(search) # << >> THEN [q |-> search, path |-> << >>]
    ELSE [q |-> << >>,
          path |-> IF Len(path) > 0 THEN Join(path) ELSE location.path]

\* the number of '/' in a string
SlashCount(s) == Len(SelectSeq(s, LAMBDA c : c = "/"))

\* the callback of allDownloads.filter in applyFilters
ApplyKeeps(cache, path, types, search, download) ==
    /\ IF Len(path) > 0
       THEN /\ StartsWith(download.Name, Join(path))
            /\ SlashCount(JsSlice(download.Name, Len(Join(path)) + 1,
                                  Len(download.Name))) = 0
       ELSE SlashCount(download.Name) = 0
    /\ (types # {} => getFileTypeInfo(cache, download) \in types)
    /\ (ToLowerCase(search) # << >> =>
            matchesSearch(ToLowerCase(download.Name), ToLowerCase(search)))

\* applyFilters() with window.location, currentPath and the search box as
\* the handler left them
applyFilters(location, path, search) ==
    /\ pageUrl' = UrlApplied(location, path, search)
    /\ filteredDownloads' =
          LET Keep(d) == ApplyKeeps(fileTypeCache, path, activeFileTypes, search, d)
          IN  SelectSeq(allDownloads, Keep)
    /\ currentPage' = 1
    /\ filterDropdown' = updateFileTypeFilterCounts(allDownloads, fileTypeCache, search)
    /\ Show(allDownloads, folderTree, fileTypeCache, path, activeFileTypes, 1,
            sortBy, search)

\* navigateToPath(path)
navigateToPath(path) ==
    /\ currentPath' = path
    /\ searchInput' = << >>
    /\ favoritesTree' = renderFavorites(favoritesConfig, allDownloads)
    /\ applyFilters(UrlPushed(path), path, << >>)
    /\ UNCHANGED <<container, analytics, favoritesConfig, allDownloads, folderTree, fileTypeCache, activeFileTypes, sortBy,
                   searchTimeout, startPc, settingsPc>>

-----------------------------------------------------------------------------
(* Search box, navigation and favorites *)

\* a clearTimeout that cancels nothing
clearTimeoutIgnored(timers, pending) == timers

\* clearTimeout(searchTimeout): the timers left in the browser, of which the
\* one searchTimeout names is pending or not
clearTimeout(timers, pending) == IF pending THEN timers - 1 ELSE timers

\* 'input' on #searchInput: the text is now one of those given; the debounce
\* timer and the tracking timer restart
TypeText(texts) ==
    \E text \in texts :
        /\ text # searchInput
        /\ searchInput' = text
        /\ pendingTimers' = clearTimeout(pendingTimers, searchTimeout) + 1
        /\ searchTimeout' = TRUE
        /\ searchTrackTimeout' = TRUE
        /\ UNCHANGED <<container, searchEvent, pageUrl, filteredDownloads, favoritesConfig, favoritesTree, allDownloads, folderTree, fileTypeCache, currentPath,
                       activeFileTypes, currentPage, sortBy, filterDropdown, listEl,
                       pagination, startPc, settingsPc>>

SearchInput == TypeText(SearchTexts \cup {<< >>})

\* a debounce timer fires: applyFilters; searchTimeout names a pending timer
\* as long as a later one is left
SearchTimerFires ==
    /\ pendingTimers > 0
    /\ pendingTimers' = pendingTimers - 1
    /\ searchTimeout' = (pendingTimers > 1)
    /\ applyFilters(pageUrl, currentPath, searchInput)
    /\ UNCHANGED <<container, searchTrackTimeout, searchEvent, favoritesConfig, favoritesTree, allDownloads, folderTree, fileTypeCache, currentPath,
                   activeFileTypes, sortBy, searchInput, startPc, settingsPc>>

\* String.prototype.trim
RECURSIVE TrimStart(_)
TrimStart(s) == IF s # << >> /\ IsSpace(Head(s)) THEN TrimStart(Tail(s)) ELSE s

RECURSIVE TrimEnd(_)
TrimEnd(s) ==
    IF s # << >> /\ IsSpace(s[Len(s)]) THEN TrimEnd(SubSeq(s, 1, Len(s) - 1)) ELSE s

Trim(s) == TrimEnd(TrimStart(s))

\* the tracking timer fires, 1500 ms after the last input event and so after
\* the debounce timer of that event:
\* BlobExplorerAnalytics.search(query, filteredDownloads.length)
SearchTrackFires ==
    /\ searchTrackTimeout
    /\ pendingTimers = 0
    /\ searchTrackTimeout' = FALSE
    /\ searchEvent' = IF Len(Trim(searchInput)) >= 2
                      THEN [query |-> Trim(searchInput),
                            resultCount |-> Len(filteredDownloads)]
                      ELSE searchEvent
    /\ UNCHANGED <<container, pendingTimers, pageUrl, filteredDownloads, allDownloads, folderTree,
                   fileTypeCache, currentPath, activeFileTypes, currentPage, sortBy,
                   searchInput, searchTimeout, filterDropdown, listEl, pagination,
                   favoritesConfig, favoritesTree, startPc, settingsPc>>

\* click on #clearSearch, or Escape with text in the box
ClearSearch ==
    /\ searchInput # << >>
    /\ searchInput' = << >>
    /\ applyFilters(pageUrl, currentPath, << >>)
    /\ UNCHANGED <<container, analytics, favoritesConfig, favoritesTree, allDownloads, folderTree, fileTypeCache, currentPath,
                   activeFileTypes, sortBy, searchTimeout, startPc, settingsPc>>

\* click on the logo or the home link
GoHome == navigateToPath(<< >>)

\* click on a rendered folder item
FolderClick ==
    \E i \in 1..Len(listEl.items) :
        /\ listEl.items[i].type = "folder"
        /\ navigateToPath(Append(currentPath, listEl.items[i].name))

\* click on a breadcrumb: Home or a prefix of the current path
BreadcrumbClick ==
    /\ searchInput = << >>
    /\ currentPath # << >>
    /\ \E index \in 0..(Len(currentPath) - 1) :
          navigateToPath(JsSlice(currentPath, 0, index))

\* click on a rendered folder favorite, or on a folder a pattern favorite
\* matched
FavoriteFolderClick ==
    \E i \in 1..Len(favoritesTree) :
        /\ favoritesTree[i].type = "folder"
        /\ navigateToPath(favoritesTree[i].path)

\* click on a rendered search favorite: the query as a '^' regex
FavoriteSearchClick ==
    \E i \in 1..Len(favoritesTree) :
        LET searchQuery == favoritesTree[i].query
        IN  /\ favoritesTree[i].type = "search"
            /\ searchInput' = searchQuery
            /\ currentPath' = << >>
            /\ applyFilters(pageUrl, << >>, searchQuery)
            /\ UNCHANGED <<container, analytics, favoritesConfig, favoritesTree, allDownloads, folderTree, fileTypeCache, activeFileTypes,
                           sortBy, searchTimeout, startPc, settingsPc>>

\* the URL of the history entry with the state {path, search}, as
\* replaceState and pushState stored it
EntryUrl(path, search) ==
    IF search # << >> THEN [q |-> search, path |-> << >>]
    ELSE [q |-> << >>, path |-> IF Len(path) > 0 THEN Join(path) ELSE << >>]

\* popstate: back/forward to a history entry {path, search}
PopState ==
    \E path \in FavoritePaths \cup {<< >>}, search \in SearchTexts \cup {<< >>} :
        /\ currentPath' = path
        /\ searchInput' = search
        /\ favoritesTree' = renderFavorites(favoritesConfig, allDownloads)
        /\ applyFilters(EntryUrl(path, search), path, search)
        /\ UNCHANGED <<container, analytics, favoritesConfig, allDownloads, folderTree, fileTypeCache, activeFileTypes,
                       sortBy, searchTimeout, startPc, settingsPc>>

-----------------------------------------------------------------------------
(* Sort order and type filter *)

\* 'change' on #sortBy
SortChange ==
    \E by \in SortInputs :
        /\ by # sortBy
        /\ sortBy' = by
        /\ Show(allDownloads, folderTree, fileTypeCache, currentPath,
                activeFileTypes, currentPage, by, searchInput)
        /\ UNCHANGED <<container, analytics, pageUrl, filteredDownloads, favoritesConfig, favoritesTree, allDownloads, folderTree, fileTypeCache, currentPath,
                       activeFileTypes, currentPage, searchInput, searchTimeout,
                       filterDropdown, startPc, settingsPc>>

\* 'change' on the check box of one type
TypeCheckboxChange ==
    \E type \in filterDropdown.types :
        LET types == IF type \in activeFileTypes THEN activeFileTypes \ {type}
                     ELSE activeFileTypes \cup {type}
        IN  /\ activeFileTypes' = types
            /\ currentPage' = 1
            /\ Show(allDownloads, folderTree, fileTypeCache, currentPath, types, 1,
                    sortBy, searchInput)
            /\ UNCHANGED <<container, analytics, pageUrl, filteredDownloads, favoritesConfig, favoritesTree, allDownloads, folderTree, fileTypeCache, currentPath,
                           sortBy, searchInput, searchTimeout, filterDropdown,
                           startPc, settingsPc>>

\* the click handlers of Select All and Select None, leaving the given set
SelectTypes(types) ==
    /\ filterDropdown.built
    /\ activeFileTypes' = types
    /\ filterDropdown' = updateFileTypeFilterCounts(allDownloads, fileTypeCache,
                                                    searchInput)
    /\ currentPage' = 1
    /\ Show(allDownloads, folderTree, fileTypeCache, currentPath, types, 1, sortBy,
            searchInput)
    /\ UNCHANGED <<container, analytics, pageUrl, filteredDownloads, favoritesConfig, favoritesTree, allDownloads, folderTree, fileTypeCache, currentPath, sortBy,
                   searchInput, searchTimeout, startPc, settingsPc>>

SelectAll == SelectTypes(activeFileTypes \cup filterDropdown.types)

SelectNone == SelectTypes({})

-----------------------------------------------------------------------------
(* Page buttons: firstPage, prevPage, nextPage, lastPage *)

\* the handler leaves currentPage = page and, when it renders, calls
\* displayDownloads
PageStep(page, renders) ==
    /\ currentPage' = page
    /\ IF renders
       THEN Show(allDownloads, folderTree, fileTypeCache, currentPath,
                 activeFileTypes, page, sortBy, searchInput)
       ELSE UNCHANGED <<listEl, pagination>>
    /\ UNCHANGED <<container, analytics, pageUrl, filteredDownloads, favoritesConfig, favoritesTree, allDownloads, folderTree, fileTypeCache, currentPath,
                   activeFileTypes, sortBy, searchInput, searchTimeout,
                   filterDropdown, startPc, settingsPc>>

\* totalPages as nextPage and lastPage compute it
ViewTotalPages ==
    TotalPages(getCurrentViewItemCount(allDownloads, folderTree, fileTypeCache,
                                       currentPath, activeFileTypes, searchInput))

\* a click reaches the handler when the controls are displayed and the
\* button is not disabled
nextPage ==
    /\ pagination.shown /\ ~pagination.atLast
    /\ IF currentPage < ViewTotalPages THEN PageStep(currentPage + 1, TRUE)
       ELSE PageStep(currentPage, FALSE)

prevPage ==
    /\ pagination.shown /\ ~pagination.atFirst
    /\ IF currentPage > 1 THEN PageStep(currentPage - 1, TRUE)
       ELSE PageStep(currentPage, FALSE)

firstPage ==
    /\ pagination.shown /\ ~pagination.atFirst
    /\ PageStep(1, TRUE)

lastPage ==
    /\ pagination.shown /\ ~pagination.atLast
    /\ PageStep(ViewTotalPages, TRUE)

-----------------------------------------------------------------------------
(* Loads: loadData and loadDataFromCustomUrl.  A load is at "fetch" while it *)
(* awaits the listing (metadata, cache read, fetch, text), and at "cache"    *)
(* while it awaits cacheData after it has assigned and indexed the records.  *)

\* the assignment without the call of buildFolderTree
InstallWithoutIndex(records) ==
    /\ allDownloads' = records
    /\ filteredDownloads' = records
    /\ folderTree' = folderTree
    /\ fileTypeCache' = fileTypeCache

\* allDownloads = records; buildFolderTree()
Install(records) ==
    /\ allDownloads' = records
    /\ filteredDownloads' = records
    /\ folderTree' = buildFolderTree(records)
    /\ fileTypeCache' = buildFileTypeCache(records)

\* initializeFilters(); renderFavorites(); displayDownloads() over the record
\* list given
Present(all, tree, cache, path) ==
    /\ filterDropdown' = updateFileTypeFilterCounts(all, cache, searchInput)
    /\ favoritesTree' = renderFavorites(favoritesConfig, all)
    /\ Show(all, tree, cache, path, activeFileTypes, currentPage, sortBy, searchInput)

\* loadData() runs up to its first await
EnterLoadData ==
    /\ startPc' = "fetch"
    /\ listEl' = Loading

\* the startup custom load fails (fetch error, bad XML, no blobs): the catch
\* of DOMContentLoaded falls back to loadData()
StartCustomFails ==
    /\ startPc = "customFetch"
    /\ EnterLoadData
    /\ UNCHANGED <<container, analytics, pageUrl, filteredDownloads, favoritesConfig, favoritesTree, allDownloads, folderTree, fileTypeCache, currentPath,
                   activeFileTypes, currentPage, sortBy, searchInput, searchTimeout,
                   filterDropdown, pagination, settingsPc>>

\* the startup custom load has its blobs: assign, index, await cacheData
StartCustomFetched ==
    /\ startPc = "customFetch"
    /\ \E blobs \in DataSets : Install(blobs)
    /\ startPc' = "customCache"
    /\ UNCHANGED <<container, analytics, pageUrl, favoritesConfig, favoritesTree, currentPath, activeFileTypes, currentPage, sortBy, searchInput,
                   searchTimeout, filterDropdown, listEl, pagination, settingsPc>>

\* cacheData resolved: reset to home and render
StartCustomCached ==
    /\ startPc = "customCache"
    /\ startPc' = "done"
    /\ currentPath' = << >>
    /\ Present(allDownloads, folderTree, fileTypeCache, << >>)
    /\ UNCHANGED <<container, analytics, pageUrl, filteredDownloads, favoritesConfig, allDownloads, folderTree, fileTypeCache, activeFileTypes,
                   currentPage, sortBy, searchInput, searchTimeout, settingsPc>>

\* cacheData rejected: the error is rethrown and loadData() starts
StartCustomCacheFails ==
    /\ startPc = "customCache"
    /\ EnterLoadData
    /\ UNCHANGED <<container, analytics, pageUrl, filteredDownloads, favoritesConfig, favoritesTree, allDownloads, folderTree, fileTypeCache, currentPath,
                   activeFileTypes, currentPage, sortBy, searchInput, searchTimeout,
                   filterDropdown, pagination, settingsPc>>

\* loadData: the cache is current; assign, index and render in one go
LoadFromCache ==
    /\ startPc = "fetch"
    /\ \E downloads \in DataSets :
          /\ Install(downloads)
          /\ Present(downloads, buildFolderTree(downloads),
                     buildFileTypeCache(downloads), currentPath)
    /\ startPc' = "done"
    /\ UNCHANGED <<container, analytics, pageUrl, favoritesConfig, currentPath, activeFileTypes, currentPage, sortBy, searchInput,
                   searchTimeout, settingsPc>>

\* loadData: downloads.json fetched and parsed; assign, index, await cacheData
LoadFetched ==
    /\ startPc = "fetch"
    /\ \E downloads \in DataSets \cup {<< >>} : Install(downloads)
    /\ startPc' = "cache"
    /\ UNCHANGED <<container, analytics, pageUrl, favoritesConfig, favoritesTree, currentPath, activeFileTypes, currentPage, sortBy, searchInput,
                   searchTimeout, filterDropdown, listEl, pagination, settingsPc>>

\* loadData: cacheData resolved; render
LoadCached ==
    /\ startPc = "cache"
    /\ startPc' = "done"
    /\ Present(allDownloads, folderTree, fileTypeCache, currentPath)
    /\ UNCHANGED <<container, analytics, pageUrl, filteredDownloads, favoritesConfig, allDownloads, folderTree, fileTypeCache, currentPath,
                   activeFileTypes, currentPage, sortBy, searchInput, searchTimeout,
                   settingsPc>>

\* loadData: an await throws (cache read, fetch, HTTP status, JSON, cache
\* write): the catch renders the error
LoadFails ==
    /\ startPc \in {"fetch", "cache"}
    /\ startPc' = "done"
    /\ listEl' = LoadError
    /\ UNCHANGED <<container, analytics, pageUrl, filteredDownloads, favoritesConfig, favoritesTree, allDownloads, folderTree, fileTypeCache, currentPath,
                   activeFileTypes, currentPage, sortBy, searchInput, searchTimeout,
                   filterDropdown, pagination, settingsPc>>

\* click on Load Storage in the settings dialog: loadDataFromCustomUrl(url)
\* runs up to its first await
SettingsLoadClick ==
    /\ settingsPc = "idle"
    /\ settingsPc' = "fetch"
    /\ listEl' = Loading
    /\ UNCHANGED <<container, analytics, pageUrl, filteredDownloads, favoritesConfig, favoritesTree, allDownloads, folderTree, fileTypeCache, currentPath,
                   activeFileTypes, currentPage, sortBy, searchInput, searchTimeout,
                   filterDropdown, pagination, startPc>>

\* the settings load has its blobs: assign, index, await cacheData
SettingsFetched ==
    /\ settingsPc = "fetch"
    /\ \E blobs \in DataSets : Install(blobs)
    /\ settingsPc' = "cache"
    /\ UNCHANGED <<container, analytics, pageUrl, favoritesConfig, favoritesTree, currentPath, activeFileTypes, currentPage, sortBy, searchInput,
                   searchTimeout, filterDropdown, listEl, pagination, startPc>>

\* cacheData resolved: reset to home and render
SettingsCached ==
    /\ settingsPc = "cache"
    /\ settingsPc' = "idle"
    /\ currentPath' = << >>
    /\ Present(allDownloads, folderTree, fileTypeCache, << >>)
    /\ UNCHANGED <<container, analytics, pageUrl, filteredDownloads, favoritesConfig, allDownloads, folderTree, fileTypeCache, activeFileTypes,
                   currentPage, sortBy, searchInput, searchTimeout, startPc>>

\* the settings load throws at an await: the dialog shows the error
SettingsFails ==
    /\ settingsPc \in {"fetch", "cache"}
    /\ settingsPc' = "idle"
    /\ UNCHANGED <<container, analytics, pageUrl, filteredDownloads, favoritesConfig, favoritesTree, allDownloads, folderTree, fileTypeCache, currentPath,
                   activeFileTypes, currentPage, sortBy, searchInput, searchTimeout,
                   filterDropdown, listEl, pagination, startPc>>

-----------------------------------------------------------------------------
(* The session: the page from DOMContentLoaded on, with the loads, the      *)
(* navigation, the favorites and the page buttons.  The sort order and the  *)
(* type filter stay as declared and the search text comes from the URL, the *)
(* history and the favorites; SpecView below adds the remaining handlers.   *)

Next ==
    \/ ClearSearch
    \/ GoHome
    \/ FolderClick
    \/ BreadcrumbClick
    \/ FavoriteFolderClick
    \/ FavoriteSearchClick
    \/ PopState
    \/ firstPage
    \/ prevPage
    \/ nextPage
    \/ lastPage
    \/ StartCustomFails
    \/ StartCustomFetched
    \/ StartCustomCached
    \/ StartCustomCacheFails
    \/ LoadFromCache
    \/ LoadFetched
    \/ LoadCached
    \/ LoadFails
    \/ SettingsLoadClick
    \/ SettingsFetched
    \/ SettingsCached
    \/ SettingsFails

Spec == Init /\ [][Next]_vars

-----------------------------------------------------------------------------
(* The view: a listing is loaded and shown (the state loadData leaves when  *)
(* the cache is current), and the user searches, navigates, sorts, filters  *)
(* and pages through it.  No load is in flight.                             *)

ViewInit ==
    /\ allDownloads \in ViewLists
    /\ folderTree = buildFolderTree(allDownloads)
    /\ fileTypeCache = buildFileTypeCache(allDownloads)
    /\ activeFileTypes = DefaultFileTypes
    /\ currentPage = 1
    /\ sortBy = "date-desc"
    /\ \E u \in UrlStates :
          /\ searchInput = u.q
          /\ currentPath = IF u.q # << >> THEN << >>
                           ELSE SelectSeq(Split(u.path), LAMBDA seg : Len(seg) > 0)
    /\ searchTimeout = FALSE
    /\ filterDropdown = updateFileTypeFilterCounts(allDownloads, fileTypeCache,
                                                   searchInput)
    /\ \E r \in {displayDownloads(allDownloads, folderTree, fileTypeCache,
                                  currentPath, activeFileTypes, 1, sortBy,
                                  searchInput, PaginationHidden)} :
          /\ listEl = r.list
          /\ pagination = r.pag
    /\ favoritesConfig = DefaultFavorites
    /\ favoritesTree = renderFavorites(favoritesConfig, allDownloads)
    /\ startPc = "done"
    /\ settingsPc = "idle"
    /\ pageUrl = [q |-> searchInput,
                  path |-> IF searchInput # << >> THEN << >> ELSE Join(currentPath)]
    /\ filteredDownloads = allDownloads
    /\ searchTrackTimeout = FALSE
    /\ pendingTimers = 0
    /\ searchEvent = NoEvent
    /\ ContainerServing

ViewNext ==
    \/ SearchInput
    \/ SearchTimerFires
    \/ ClearSearch
    \/ GoHome
    \/ FolderClick
    \/ BreadcrumbClick
    \/ FavoriteFolderClick
    \/ FavoriteSearchClick
    \/ SortChange
    \/ TypeCheckboxChange
    \/ SelectAll
    \/ SelectNone
    \/ firstPage
    \/ prevPage
    \/ nextPage
    \/ lastPage

SpecView == ViewInit /\ [][ViewNext]_vars

-----------------------------------------------------------------------------
(* The query as a function of its inputs: any record list of the pool, with *)
(* any of the paths, search texts, type filters and sort options, is        *)
(* indexed by buildFolderTree and then rendered by displayDownloads.        *)

QueryInit ==
    /\ allDownloads \in SmallLists
    /\ folderTree = EmptyMap
    /\ fileTypeCache = buildFileTypeCache(<< >>)
    /\ currentPath \in QueryPaths
    /\ searchInput \in QuerySearches
    /\ activeFileTypes \in QueryTypes
    /\ sortBy \in SortKeys
    /\ currentPage = 1
    /\ searchTimeout = FALSE
    /\ filterDropdown = [built |-> FALSE, types |-> {}]
    /\ listEl = Loading
    /\ pagination = PaginationHidden
    /\ favoritesConfig = DefaultFavorites
    /\ favoritesTree = << >>
    /\ startPc = "index"
    /\ settingsPc = "idle"
    /\ pageUrl = [q |-> searchInput,
                  path |-> IF searchInput # << >> THEN << >> ELSE Join(currentPath)]
    /\ filteredDownloads = << >>
    /\ searchTrackTimeout = FALSE
    /\ pendingTimers = 0
    /\ searchEvent = NoEvent
    /\ ContainerServing

\* buildFolderTree() over allDownloads
BuildIndex ==
    /\ startPc = "index"
    /\ startPc' = "render"
    /\ folderTree' = buildFolderTree(allDownloads)
    /\ fileTypeCache' = buildFileTypeCache(allDownloads)
    /\ UNCHANGED <<container, analytics, pageUrl, filteredDownloads, favoritesConfig, favoritesTree, allDownloads, currentPath, activeFileTypes, currentPage, sortBy,
                   searchInput, searchTimeout, filterDropdown, listEl,
                   pagination, settingsPc>>

\* initializeFilters(); displayDownloads()
Display ==
    /\ startPc = "render"
    /\ startPc' = "done"
    /\ Present(allDownloads, folderTree, fileTypeCache, currentPath)
    /\ UNCHANGED <<container, analytics, pageUrl, filteredDownloads, favoritesConfig, allDownloads, folderTree, fileTypeCache, currentPath,
                   activeFileTypes, currentPage, sortBy, searchInput, searchTimeout,
                   settingsPc>>

QueryNext == BuildIndex \/ Display

SpecQuery == QueryInit /\ [][QueryNext]_vars

-----------------------------------------------------------------------------
(* Properties of the query (SpecQuery) *)

\* the records among the rendered items
RenderedRecords ==
    {listEl.items[i].data : i \in {j \in 1..Len(listEl.items) :
                                      listEl.items[j].type = "file"}}

\* the folder names among the rendered items
RenderedFolders ==
    {listEl.items[i].name : i \in {j \in 1..Len(listEl.items) :
                                      listEl.items[j].type = "folder"}}

\* C1: no record with Length <= 0 is among the items displayDownloads
\* renders, whatever the record list, type filter, sort option, path and
\* search text, in search mode and in browse mode.
C1_NoZeroByteRendered == \A d \in RenderedRecords : d.Length > 0

\* a zero-byte record is in the list and the search that matches every name
\* renders items without a type filter
C1_Witness ==
    /\ startPc = "done"
    /\ listEl.kind = "items"
    /\ activeFileTypes = {}
    /\ \E i \in 1..Len(allDownloads) : allDownloads[i].Length <= 0
    /\ searchInput = <<"*">>

\* the segments of the record's name
Parts(d) == Split(d.Name)

\* some record strictly under the folder path counts for the type filter
HasCountingRecordUnder(folderKey) ==
    \E i \in 1..Len(allDownloads) :
        /\ StartsWith(allDownloads[i].Name, folderKey \o <<"/">>)
        /\ allDownloads[i].Length > 0
        /\ (activeFileTypes = {} \/ ClassifyUrl(allDownloads[i].Url) \in activeFileTypes)

\* every folder name of the record list
SegmentNames ==
    UNION {{Parts(allDownloads[i])[k] : k \in 1..(Len(Parts(allDownloads[i])) - 1)} :
              i \in 1..Len(allDownloads)}

\* C2: in browse mode at path P a folder c is listed iff some record strictly
\* under P/c has Length > 0 and a type in activeFileTypes (or the filter is
\* empty).
C2_FolderListedIffCounting ==
    (startPc = "done" /\ searchInput = << >> /\ Join(currentPath) \in DOMAIN folderTree)
    => \A c \in SegmentNames :
          (c \in RenderedFolders)
          <=> HasCountingRecordUnder(ChildPath(Join(currentPath), c))

\* at a/ one child folder is listed and one is hidden
C2_Witness ==
    /\ startPc = "done"
    /\ searchInput = << >>
    /\ currentPath = <<<<"a">>>>
    /\ Join(currentPath) \in DOMAIN folderTree
    /\ folderTree[Join(currentPath)].folders = {<<"b">>, <<"c">>}
    /\ Cardinality(RenderedFolders) = 1

\* the key of the first k segments
PrefixKey(parts, k) == Join(SubSeq(parts, 1, k))

\* C3: after buildFolderTree every strict prefix of every record's split name
\* has a node and the last segment of each non-root prefix is in the folders
\* of its parent's node; and every key other than the root's is such a prefix.
C3_TreeIsPrefixClosure ==
    startPc # "index"
    => /\ \A i \in 1..Len(allDownloads) :
             \A k \in 0..(Len(Parts(allDownloads[i])) - 1) :
                /\ PrefixKey(Parts(allDownloads[i]), k) \in DOMAIN folderTree
                /\ k >= 1 =>
                      Parts(allDownloads[i])[k]
                          \in folderTree[PrefixKey(Parts(allDownloads[i]), k - 1)].folders
       /\ \A key \in DOMAIN folderTree :
             key # << >> =>
                \E i \in 1..Len(allDownloads) :
                   \E k \in 1..(Len(Parts(allDownloads[i])) - 1) :
                      key = PrefixKey(Parts(allDownloads[i]), k)

\* the index is built over a list with a record two folders deep
C3_Witness ==
    /\ startPc = "render"
    /\ <<"a", "/", "b">> \in DOMAIN folderTree
    /\ Len(allDownloads) = MaxRecords

\* the key of the record's parent folder
ParentKey(d) == PrefixKey(Parts(d), Len(Parts(d)) - 1)

\* C4: every record is in the files of the node keyed by its parent path and
\* of no other node, once, and the files of a node keep the relative order of
\* allDownloads.
C4_FilesPartitionInOrder ==
    startPc # "index"
    => /\ \A i \in 1..Len(allDownloads) : ParentKey(allDownloads[i]) \in DOMAIN folderTree
       /\ \A key \in DOMAIN folderTree :
             folderTree[key].files
                = SelectSeq(allDownloads, LAMBDA d : ParentKey(d) = key)

\* two records of one folder are indexed, and a record of another folder
C4_Witness ==
    /\ startPc = "render"
    /\ \E key \in DOMAIN folderTree : Len(folderTree[key].files) = 2

-----------------------------------------------------------------------------
(* Properties of the session (Spec) and of the view (SpecView) *)

\* C5: the root node '' is in folderTree in every reachable state, before
\* the first load completes too, so that browsing the root never renders
\* 'Folder not found'.
C5_RootNeverNotFound ==
    (currentPath = << >> /\ searchInput = << >>) => listEl.kind # "notFound"

\* C6: every step that changes currentPath or the search text leaves
\* currentPage = 1 with the view it renders.
C6_PathOrSearchChangeResetsPage ==
    [][(currentPath' # currentPath \/ searchInput' # searchInput) => currentPage' = 1]_vars

\* C7: currentPage >= 1 in every reachable state, and whenever items are
\* rendered currentPage is at most the number of pages, so the rendered slice
\* is not empty.
C7_PageWithinRange ==
    /\ currentPage >= 1
    /\ listEl.kind = "items" =>
          /\ currentPage <= TotalPages(listEl.total)
          /\ listEl.items # << >>

\* the count displayDownloads renders for the view as it is
ShownTotal ==
    displayDownloads(allDownloads, folderTree, fileTypeCache, currentPath,
                     activeFileTypes, currentPage, sortBy, searchInput,
                     pagination).list.total

\* the count nextPage and lastPage compute for the view as it is
ViewCount ==
    getCurrentViewItemCount(allDownloads, folderTree, fileTypeCache, currentPath,
                            activeFileTypes, searchInput)

\* C8: the count nextPage uses is the count displayDownloads renders; a
\* nextPage step adds one to currentPage iff currentPage < ceil(N/100) and
\* else leaves it; a prevPage step takes one off iff currentPage > 1 and else
\* leaves it.
C8_PageStepsFollowRenderedCount ==
    /\ [](ViewCount = ShownTotal)
    /\ [][/\ nextPage =>
                currentPage' = IF currentPage < Ceil(ShownTotal, itemsPerPage)
                               THEN currentPage + 1 ELSE currentPage
          /\ prevPage =>
                currentPage' = IF currentPage > 1 THEN currentPage - 1
                               ELSE currentPage]_vars

\* a middle page is displayed: both directions are open
C8_Witness ==
    /\ pagination.shown
    /\ ~pagination.atFirst
    /\ ~pagination.atLast
    /\ currentPage = 2
    /\ listEl.kind = "items"

\* allItems of displayDownloads (sortedFiles of renderSearchResults) for the
\* view as it is
ViewItems ==
    IF ToLowerCase(searchInput) # << >>
    THEN SearchItems(allDownloads, fileTypeCache, activeFileTypes, sortBy,
                     ToLowerCase(searchInput))
    ELSE IF Join(currentPath) \notin DOMAIN folderTree THEN << >>
    ELSE BrowseItems(folderTree, fileTypeCache, activeFileTypes, sortBy,
                     Join(currentPath))

\* C9: the page slices of the N items of a view, for the pages
\* 1..ceil(N/100), are the consecutive segments of 100 items (the last one
\* of what is left): disjoint, in order, covering all N, none longer than 100.
C9_PagesPartitionItems ==
    \A p \in 1..TotalPages(Len(ViewItems)) :
        /\ PageItems(ViewItems, p)
              = SubSeq(ViewItems, (p - 1) * itemsPerPage + 1,
                       Min(p * itemsPerPage, Len(ViewItems)))
        /\ Len(PageItems(ViewItems, p)) \in 1..itemsPerPage

\* the third page of a view is rendered and holds less than a full page
C9_Witness ==
    /\ listEl.kind = "items"
    /\ currentPage >= 3
    /\ currentPage = TotalPages(Len(ViewItems))
    /\ listEl.items = PageItems(ViewItems, currentPage)
    /\ Len(listEl.items) < itemsPerPage

\* the records a walk from the folder down reaches, entering only the folders
\* displayDownloads lists
RECURSIVE BrowseRecords(_)
BrowseRecords(pathKey) ==
    LET items == BrowseItems(folderTree, fileTypeCache, activeFileTypes, sortBy, pathKey)
    IN  {items[i].data : i \in {j \in 1..Len(items) : items[j].type = "file"}}
        \cup UNION {BrowseRecords(ChildPath(pathKey, items[i].name)) :
                       i \in {j \in 1..Len(items) : items[j].type = "folder"}}

\* C10: with an empty type filter the search with a needle that matches every
\* name renders the records that browsing from the root through the listed
\* folders reaches.
C10_SearchAllEqualsBrowseAll ==
    (startPc = "done" /\ activeFileTypes = {} /\ searchInput = <<"*">>)
    => RenderedRecords = BrowseRecords(<< >>)

\* the search renders a record two folders deep and leaves a zero-byte one out
C10_Witness ==
    /\ startPc = "done"
    /\ activeFileTypes = {}
    /\ searchInput = <<"*">>
    /\ \E d \in RenderedRecords : Len(Parts(d)) = 3
    /\ \E i \in 1..Len(allDownloads) : allDownloads[i].Length <= 0

-----------------------------------------------------------------------------
(* Properties of the type filter (SpecView) *)

\* every type label that occurs in the record list
AllTypeLabels ==
    {getFileTypeInfo(fileTypeCache, allDownloads[i]) : i \in 1..Len(allDownloads)}

\* what displayDownloads renders for the view as it is, with the type filter
\* given
RenderedWith(types) ==
    displayDownloads(allDownloads, folderTree, fileTypeCache, currentPath, types,
                     currentPage, sortBy, searchInput, pagination)

\* C11: the empty type filter accepts every type: the view renders the same
\* with activeFileTypes empty as with every type label of the record list in
\* it, and a view rendered under either filter shows that result.
C11_EmptyFilterAcceptsAll ==
    /\ RenderedWith({}) = RenderedWith(AllTypeLabels)
    /\ (~searchTimeout /\ listEl.kind = "items"
          /\ (activeFileTypes = {} \/ AllTypeLabels \subseteq activeFileTypes))
        => listEl = RenderedWith({}).list

\* after Select None the files of a record list with two types are rendered
C11_Witness ==
    /\ activeFileTypes = {}
    /\ ~searchTimeout
    /\ listEl.kind = "items"
    /\ listEl = RenderedWith(AllTypeLabels).list
    /\ Cardinality(AllTypeLabels) >= 2
    /\ \E i \in 1..Len(listEl.items) : listEl.items[i].type = "file"

-----------------------------------------------------------------------------
(* Properties of the browse order and of sortFiles (SpecQuery) *)

\* the view is rendered in browse mode and shows items
BrowseRendered ==
    /\ startPc = "done"
    /\ ToLowerCase(searchInput) = << >>
    /\ listEl.kind = "items"

\* the names of the folder items of a list of items, in their order
FolderNamesOf(items) ==
    LET folders == SelectSeq(items, LAMBDA it : it.type = "folder")
    IN  [i \in 1..Len(folders) |-> folders[i].name]

\* C12: in browse mode the items are the visible folders in ascending
\* case-sensitive (code unit) order of their names, followed by the visible
\* files; no file precedes a folder, and the sort option does not change the
\* order of the folders.
C12_FoldersFirstInNameOrder ==
    BrowseRendered =>
        LET items   == listEl.items
            pathKey == Join(currentPath)
        IN  /\ \A i, j \in 1..Len(items) :
                  (i < j /\ items[j].type = "folder") =>
                      /\ items[i].type = "folder"
                      /\ LexCompare(CodeOrder, items[i].name, items[j].name) < 0
            /\ RenderedFolders
                  = FilteredFolders(folderTree, fileTypeCache, activeFileTypes, pathKey)
            /\ RenderedRecords
                  = Range(filterDownloads(fileTypeCache, folderTree[pathKey].files,
                                          << >>, activeFileTypes, TRUE))
            /\ \A by \in SortKeys :
                  FolderNamesOf(BrowseItems(folderTree, fileTypeCache,
                                            activeFileTypes, by, pathKey))
                     = FolderNamesOf(items)

\* the root shows folder B before folder a, and a file after them
C12_Witness ==
    /\ BrowseRendered
    /\ Len(listEl.items) >= 3
    /\ listEl.items[1] = FolderItem(<<"B">>)
    /\ listEl.items[2] = FolderItem(<<"a">>)
    /\ listEl.items[3].type = "file"

\* the array displayDownloads passes to sortFiles: the filtered records of
\* the search, or the filtered files of the folder node, in encounter order
SortInput ==
    IF ToLowerCase(searchInput) # << >>
    THEN filterDownloads(fileTypeCache, allDownloads, ToLowerCase(searchInput),
                         activeFileTypes, TRUE)
    ELSE filterDownloads(fileTypeCache, folderTree[Join(currentPath)].files, << >>,
                         activeFileTypes, TRUE)

\* the records of the rendered file items, in their order
SortOutput ==
    LET files == SelectSeq(listEl.items, LAMBDA it : it.type = "file")
    IN  [i \in 1..Len(files) |-> files[i].data]

\* the last '/'-segment of the record's name, lower-cased
FinalSegmentLower(d) == ToLowerCase(Parts(d)[Len(Parts(d))])

\* a's key is at or before b's key in the order of the sort option; 0 when
\* the keys are equal
KeyOrder(by, a, b) ==
    CASE by = "date-desc" -> b.LastModified - a.LastModified
      [] by = "date-asc"  -> a.LastModified - b.LastModified
      [] by = "size-desc" -> b.Length - a.Length
      [] by = "size-asc"  -> a.Length - b.Length
      [] by = "name-asc"  ->
            LexCompare(CollationOrder, FinalSegmentLower(a), FinalSegmentLower(b))

\* the first position of a record in a sequence
PositionIn(seq, d) == CHOOSE i \in 1..Len(seq) : seq[i] = d /\ \A j \in 1..(i - 1) : seq[j] # d

\* C13: the sorted files are a permutation of the array passed to sortFiles,
\* in the order of the sort option's key, with records of equal keys in their
\* input order; the arrays of the index the input came from are as they were.
C13_SortIsStablePermutation ==
    (startPc = "done" /\ listEl.kind = "items") =>
        LET input  == SortInput
            output == SortOutput
        IN  /\ Len(output) = Len(input)
            /\ \A d \in Range(input) \cup Range(output) :
                  Cardinality({i \in 1..Len(input) : input[i] = d})
                     = Cardinality({i \in 1..Len(output) : output[i] = d})
            /\ \A i, j \in 1..Len(output) :
                  i < j =>
                     /\ KeyOrder(sortBy, output[i], output[j]) <= 0
                     /\ KeyOrder(sortBy, output[i], output[j]) = 0
                           => PositionIn(input, output[i]) < PositionIn(input, output[j])
            /\ folderTree = buildFolderTree(allDownloads)

\* three files are sorted by name into another order than they came in, two
\* of them with the same final segment
C13_Witness ==
    /\ startPc = "done"
    /\ listEl.kind = "items"
    /\ sortBy = "name-asc"
    /\ Len(SortOutput) = 3
    /\ SortOutput # SortInput
    /\ KeyOrder(sortBy, SortOutput[1], SortOutput[2]) = 0

-----------------------------------------------------------------------------
(* Properties of the empty outcomes of browsing (SpecQuery) *)

\* the folder of the current path has a node, and the type filter leaves
\* none of its subfolders and files
NothingVisible ==
    LET pathKey == Join(currentPath)
    IN  /\ pathKey \in DOMAIN folderTree
        /\ FilteredFolders(folderTree, fileTypeCache, activeFileTypes, pathKey) = {}
        /\ filterDownloads(fileTypeCache, folderTree[pathKey].files, << >>,
                           activeFileTypes, TRUE) = << >>

\* C14: browsing a path without a node in folderTree renders 'Folder not
\* found' with no items and a view count of 0; browsing a folder whose
\* subfolders and files are all filtered out renders 'No downloads found';
\* each message is rendered in its own case only.
C14_NotFoundDistinctFromEmpty ==
    (startPc = "done" /\ ToLowerCase(searchInput) = << >>) =>
        /\ listEl.kind = "notFound" <=> Join(currentPath) \notin DOMAIN folderTree
        /\ listEl.kind = "noResults" <=> NothingVisible
        /\ listEl.kind \in {"notFound", "noResults"} =>
              /\ listEl.items = << >>
              /\ listEl.total = 0
              /\ ViewCount = 0

\* a path without a node is browsed while the record list has folders
C14_Witness ==
    /\ startPc = "done"
    /\ searchInput = << >>
    /\ listEl.kind = "notFound"
    /\ Join(currentPath) \notin DOMAIN folderTree
    /\ Cardinality(DOMAIN folderTree) > 1

-----------------------------------------------------------------------------
(* Search matching as a function of its inputs: one record with a name of   *)
(* MatchNames is indexed and then searched for a text of MatchNeedles; the  *)
(* record is rendered iff matchesSearch accepts its lower-cased name.       *)

MatchInit ==
    /\ \E name \in MatchNames : allDownloads = <<Rec(name, 1, 1)>>
    /\ folderTree = EmptyMap
    /\ fileTypeCache = buildFileTypeCache(<< >>)
    /\ currentPath = << >>
    /\ searchInput \in MatchNeedles
    /\ activeFileTypes = {}
    /\ sortBy = "date-desc"
    /\ currentPage = 1
    /\ searchTimeout = FALSE
    /\ filterDropdown = [built |-> FALSE, types |-> {}]
    /\ listEl = Loading
    /\ pagination = PaginationHidden
    /\ favoritesConfig = DefaultFavorites
    /\ favoritesTree = << >>
    /\ startPc = "index"
    /\ settingsPc = "idle"
    /\ pageUrl = [q |-> searchInput,
                  path |-> IF searchInput # << >> THEN << >> ELSE Join(currentPath)]
    /\ filteredDownloads = << >>
    /\ searchTrackTimeout = FALSE
    /\ pendingTimers = 0
    /\ searchEvent = NoEvent
    /\ ContainerServing

SpecMatch == MatchInit /\ [][QueryNext]_vars

\* text and searchTerm as filterDownloads passes them to matchesSearch
Haystack == ToLowerCase(allDownloads[1].Name)
Needle == ToLowerCase(searchInput)

\* the search has run and matchesSearch accepted the record
MatchRendered == listEl.kind = "items" /\ RenderedRecords = {allDownloads[1]}

\* literal mode: the text contains the needle, or does with the white space
\* taken out of both
LiteralMode(text, needle) ==
    \/ Includes(text, needle)
    \/ Includes(StripSpaces(text), StripSpaces(needle))

\* the needle asks for a regular expression that does not compile
NeedleIsInvalidRegex ==
    /\ StartsWith(Needle, <<"/">>) \/ StartsWith(Needle, <<"^">>)
    /\ RegexInvalid(IF StartsWith(Needle, <<"/">>) THEN Tail(Needle) ELSE Needle)

\* C15: for a needle that starts with '/' or '^' and does not compile,
\* matchesSearch returns what literal mode returns for the same text and
\* needle.
C15_InvalidRegexFallsBackToLiteral ==
    (startPc = "done" /\ NeedleIsInvalidRegex)
        => (MatchRendered <=> LiteralMode(Haystack, Needle))

\* the whole pattern matches the whole text: '*' any run of characters, '?'
\* one character, any other character itself without regard to case
RECURSIVE WildcardMatchesAll(_, _)
WildcardMatchesAll(pattern, text) ==
    IF pattern = << >> THEN text = << >>
    ELSE IF Head(pattern) = "*"
         THEN \E k \in 0..Len(text) :
                 WildcardMatchesAll(Tail(pattern), SubSeq(text, k + 1, Len(text)))
    ELSE /\ text # << >>
         /\ Head(pattern) = "?" \/ LowerChar(Head(pattern)) = LowerChar(Head(text))
         /\ WildcardMatchesAll(Tail(pattern), Tail(text))

\* some contiguous part of the text matches the pattern
WildcardContained(pattern, text) ==
    \E i \in 1..(Len(text) + 1) :
        \E j \in (i - 1)..Len(text) : WildcardMatchesAll(pattern, SubSeq(text, i, j))

\* the needle is a wildcard pattern
NeedleIsWildcard ==
    /\ ~StartsWith(searchInput, <<"/">>)
    /\ ~StartsWith(searchInput, <<"^">>)
    /\ Includes(searchInput, <<"*">>) \/ Includes(searchInput, <<"?">>)

\* C16: for a needle with '*' or '?' that does not start with '/' or '^',
\* matchesSearch is true iff some contiguous part of the text matches the
\* needle as a wildcard pattern, without regard to case.
C16_WildcardIsContainment ==
    (startPc = "done" /\ NeedleIsWildcard)
        => (MatchRendered <=> WildcardContained(searchInput, allDownloads[1].Name))

\* 'A?b' is found inside 'AxB.c': part of the name, in another case
C16_Witness ==
    /\ startPc = "done"
    /\ searchInput = <<"A", "?", "b">>
    /\ allDownloads[1].Name = <<"A", "x", "B", ".", "c">>
    /\ MatchRendered

-----------------------------------------------------------------------------
(* Properties of the loads (Spec) *)

\* C17: once a load has assigned the record list, folderTree is, in every
\* state a handler or a continuation of a load can start from, the index
\* buildFolderTree builds from the current allDownloads.
C17_IndexMatchesRecords ==
    (allDownloads # << >> \/ folderTree # EmptyMap)
        => folderTree = buildFolderTree(allDownloads)

\* a load has assigned and indexed its records and awaits cacheData
C17_Witness ==
    /\ startPc \in {"cache", "customCache"}
    /\ Len(allDownloads) > 1
    /\ Cardinality(DOMAIN folderTree) > 1
    /\ listEl = Loading

\* the load started by DOMContentLoaded has not returned yet
StartLoadInFlight == startPc \in {"customFetch", "customCache", "fetch", "cache"}

\* the load started by the settings dialog has not returned yet
SettingsLoadInFlight == settingsPc \in {"fetch", "cache"}

\* C18: the executions of loadData and loadDataFromCustomUrl never overlap,
\* and the records a load started from the settings dialog has assigned are
\* not replaced by the startup load, which started before it.
C18_SingleWriter ==
    /\ [](~(StartLoadInFlight /\ SettingsLoadInFlight))
    /\ [][(settingsPc = "cache" /\ startPc = "customFetch")
             => allDownloads' = allDownloads]_vars

-----------------------------------------------------------------------------
(* The session without the settings dialog: the startup load (the custom    *)
(* load and loadData after it, or loadData alone) is the only load, so the  *)
(* records before a load started are those of Init.                         *)

StartNext ==
    \/ ClearSearch
    \/ GoHome
    \/ FolderClick
    \/ BreadcrumbClick
    \/ FavoriteFolderClick
    \/ FavoriteSearchClick
    \/ PopState
    \/ firstPage
    \/ prevPage
    \/ nextPage
    \/ lastPage
    \/ StartCustomFails
    \/ StartCustomFetched
    \/ StartCustomCached
    \/ StartCustomCacheFails
    \/ LoadFromCache
    \/ LoadFetched
    \/ LoadCached
    \/ LoadFails

SpecStart == Init /\ [][StartNext]_vars

\* C19: when the startup load has ended in its error path (the catch of
\* loadData has rendered the error, after the custom load, if any, threw),
\* allDownloads and folderTree are as they were before the load started.
C19_FailedLoadLeavesRecords ==
    listEl.kind = "error" => (allDownloads = << >> /\ folderTree = EmptyMap)

-----------------------------------------------------------------------------
(* Pattern favorites: any record list of the pool is indexed and rendered   *)
(* with one pattern favorite in the configuration, of any of the patterns,  *)
(* limits and sort orders.                                                  *)

FavInit ==
    /\ allDownloads \in SmallLists
    /\ folderTree = EmptyMap
    /\ fileTypeCache = buildFileTypeCache(<< >>)
    /\ currentPath = << >>
    /\ searchInput = << >>
    /\ activeFileTypes = {}
    /\ sortBy = "date-desc"
    /\ currentPage = 1
    /\ searchTimeout = FALSE
    /\ filterDropdown = [built |-> FALSE, types |-> {}]
    /\ listEl = Loading
    /\ pagination = PaginationHidden
    /\ \E pattern \in FavoritePatterns, limit \in 0..MaxLimit,
          sortOrder \in {"desc", "asc"} :
          favoritesConfig = <<Favorite("pattern", << >>, << >>, pattern, limit,
                                       sortOrder)>>
    /\ favoritesTree = << >>
    /\ startPc = "index"
    /\ settingsPc = "idle"
    /\ pageUrl = [q |-> searchInput,
                  path |-> IF searchInput # << >> THEN << >> ELSE Join(currentPath)]
    /\ filteredDownloads = << >>
    /\ searchTrackTimeout = FALSE
    /\ pendingTimers = 0
    /\ searchEvent = NoEvent
    /\ ContainerServing

\* the index, the first rendering, and then clicks on the folders the
\* pattern favorite shows
FavNext == BuildIndex \/ Display \/ FavoriteFolderClick

SpecFavorites == FavInit /\ [][FavNext]_vars

\* the paths matchFolders returned, as the rendered favorites show them
MatchedRendered == [i \in 1..Len(favoritesTree) |-> Join(favoritesTree[i].path)]

\* all the paths matchFolders matched: the folder matches or, when there are
\* none, the parents of the matching files
AllMatched ==
    LET folders == folderMatches(allDownloads, favoritesConfig[1].pattern)
    IN  IF folders # {} THEN folders
        ELSE fileParentMatches(allDownloads, favoritesConfig[1].pattern)

\* the paths returned are the first 'limit' of the matched paths in the order
\* of compare, descending for 'desc' and ascending otherwise
FirstLimitUnder(compare(_, _)) ==
    LET limit == favoritesConfig[1].limit
        Before(a, b) == IF favoritesConfig[1].sortOrder = "desc"
                        THEN compare(b, a) < 0 ELSE compare(a, b) < 0
        n == Len(MatchedRendered)
    IN  /\ n = Min(limit, Cardinality(AllMatched))
        /\ \A i \in 1..n : MatchedRendered[i] \in AllMatched
        /\ \A i, j \in 1..n : i < j => Before(MatchedRendered[i], MatchedRendered[j])
        /\ \A i \in 1..n : \A q \in AllMatched \ Range(MatchedRendered) :
              Before(MatchedRendered[i], q)

CodeUnitCompare(a, b) == LexCompare(CodeOrder, a, b)

\* C20 as stated: matchFolders returns at most limit paths, without
\* duplicates, the first limit of all matched paths in lexicographic order
\* (the order of the character codes), descending for 'desc' and ascending
\* otherwise, and the parents of matching files only when no folder matched.
C20_FirstLimitLexicographic ==
    startPc = "done" => FirstLimitUnder(CodeUnitCompare)

\* C20: matchFolders returns at most limit paths, without duplicates, the
\* first limit of all matched paths in the order of localeCompare (letters
\* compared without their case first, lower case before upper case on a
\* tie), descending for 'desc' and ascending otherwise, and the parents of
\* matching files only when no folder matched.
C20_FirstLimitInLocaleOrder ==
    startPc = "done" => FirstLimitUnder(localeCompare)

\* more folders matched than the limit allows, among them one with an
\* upper-case name, and the first 'limit' of them in descending order are
\* rendered
C20_Witness ==
    /\ startPc = "done"
    /\ favoritesConfig[1].sortOrder = "desc"
    /\ favoritesConfig[1].limit > 0
    /\ Len(favoritesTree) = favoritesConfig[1].limit
    /\ folderMatches(allDownloads, favoritesConfig[1].pattern) = AllMatched
    /\ Cardinality(AllMatched) > favoritesConfig[1].limit
    /\ <<"B">> \in AllMatched

\* C21: every path matchFolders returned is a folder path of the record
\* list, a key of folderTree other than the root, and the listing rendered
\* after a click on a pattern favorite is never 'Folder not found'.
C21_MatchedPathsAreFolders ==
    startPc = "done" =>
        /\ \A i \in 1..Len(favoritesTree) :
              Join(favoritesTree[i].path) \in DOMAIN folderTree \ {<< >>}
        /\ listEl.kind # "notFound"

-----------------------------------------------------------------------------
(* The container: entrypoint.sh, generate-config.sh, update-downloads.sh.   *)
(* The page is not open: the browser variables keep their initial values.   *)

\* number of runs of update-downloads.sh a behaviour may start
MaxUpdates == 2

\* the page before anything was loaded
BrowserClosed ==
    /\ allDownloads = << >>
    /\ folderTree = EmptyMap
    /\ fileTypeCache = buildFileTypeCache(<< >>)
    /\ activeFileTypes = DefaultFileTypes
    /\ currentPage = 1
    /\ sortBy = "date-desc"
    /\ searchInput = << >>
    /\ currentPath = << >>
    /\ searchTimeout = FALSE
    /\ filterDropdown = [built |-> FALSE, types |-> {}]
    /\ listEl = Loading
    /\ pagination = PaginationHidden
    /\ favoritesConfig = DefaultFavorites
    /\ favoritesTree = << >>
    /\ startPc = "fetch"
    /\ settingsPc = "idle"
    /\ pageUrl = [q |-> << >>, path |-> << >>]
    /\ filteredDownloads = << >>
    /\ searchTrackTimeout = FALSE
    /\ pendingTimers = 0
    /\ searchEvent = NoEvent

\* the container before the entrypoint ran: an empty data directory
ContainerCreated ==
    /\ htmlDir = [configJs |-> NoConfigJs, downloads |-> NoFile,
                  metadata |-> NoFile, tmp |-> NoFile]
    /\ procs = [entry |-> "validate", updater |-> "none", update |-> "none",
                caller |-> "none", nginx |-> FALSE, needsUpdate |-> FALSE,
                fetched |-> 0]

\* 'if [ -z "$BASE_URL" ]': exit 1
EntryValidate ==
    /\ procs.entry = "validate"
    /\ procs' = [procs EXCEPT !.entry = IF envVars.BASE_URL = "" THEN "exited"
                                        ELSE "defaultConfig"]
    /\ UNCHANGED <<browser, envVars, configDir, htmlDir, cacheDir>>

\* 'if [ ! -f "$CONFIG_FILE" ]': cp "$DEFAULT_CONFIG" "$CONFIG_FILE"
EntryDefaultConfig ==
    /\ procs.entry = "defaultConfig"
    /\ configDir' = IF configDir.config.state = "missing"
                    THEN [configDir EXCEPT !.config = DefaultConfig]
                    ELSE configDir
    /\ procs' = [procs EXCEPT !.entry = "generateConfig"]
    /\ UNCHANGED <<browser, envVars, htmlDir, cacheDir>>

\* /scripts/generate-config.sh: a config.json that does not parse ends the
\* script, and with it the entrypoint, with exit code 1
EntryGenerateConfig ==
    /\ procs.entry = "generateConfig"
    /\ IF configDir.config.state = "invalid"
       THEN /\ procs' = [procs EXCEPT !.entry = "exited"]
            /\ UNCHANGED htmlDir
       ELSE /\ htmlDir' = [htmlDir EXCEPT !.configJs = read_config(envVars, configDir)]
            /\ procs' = [procs EXCEPT !.entry = "cacheCheck"]
    /\ UNCHANGED <<browser, envVars, configDir, cacheDir>>

-----------------------------------------------------------------------------
(* The runtime configuration: the entrypoint up to generate-config.sh, from *)
(* any values of the four variables and any config.json.                    *)

ConfigEnvs ==
    { [BASE_URL |-> "u", SITE_TITLE |-> t, SITE_DESCRIPTION |-> d, LOGO_URL |-> l,
       LOGO_FILE |-> f] :
        t \in {"", "Blob Explorer", "E"},
        d \in {"", "Browse and download files from Azure Blob Storage", "D"},
        l \in {"", "L"}, f \in {"", "f"} }

ConfigFiles ==
    {ConfigFile("missing", "", "", "", ""), ConfigFile("invalid", "", "", "", "")}
        \cup { ConfigFile("ok", t, d, l, f) :
                 t \in {"", "T"}, d \in {"", "S"}, l \in {"", "M"}, f \in {"", "g"} }

ConfigInit ==
    /\ BrowserClosed
    /\ ContainerCreated
    /\ envVars \in ConfigEnvs
    /\ configDir \in { [config |-> c, logos |-> l] :
                         c \in ConfigFiles, l \in {{}, {"f"}, {"g"}} }
    /\ cacheDir = [downloads |-> NoFile, metadata |-> NoFile]

ConfigNext == EntryValidate \/ EntryDefaultConfig \/ EntryGenerateConfig

SpecConfig == ConfigInit /\ [][ConfigNext]_vars

\* the keys of config.js with the variable and the config.json key of each
ConfigKeys ==
    { [js |-> "siteTitle", var |-> "SITE_TITLE"],
      [js |-> "siteDescription", var |-> "SITE_DESCRIPTION"],
      [js |-> "logoUrl", var |-> "LOGO_URL"],
      [js |-> "logoFile", var |-> "LOGO_FILE"] }

\* the value the precedence rule gives a key when a variable counts as set
\* under the given test; the built-in default when neither source has one
Precedence(key, IsSet(_)) ==
    IF IsSet(key.var) THEN envVars[key.var]
    ELSE OrElseStr(ConfigGet(configDir, key.js), DOCKERFILE_DEFAULTS[key.var])

\* the effective logo file exists under /config
LogoFileCopied == htmlDir.configJs.logoFile \in configDir.logos

-----------------------------------------------------------------------------
(* The container from start to serving: the cache check, the background     *)
(* updater and the runs of update-downloads.sh, from any cache directory.   *)

\* update-downloads.sh is started by the entrypoint or by the updater
StartUpdate(p, caller) ==
    [p EXCEPT !.update = "fetch", !.caller = caller, !.fetched = @ + 1]

\* 'Check for cached data and copy to data directory if available'; whether
\* a cache that has metadata is stale depends on the clock
EntryCacheCheck ==
    /\ procs.entry = "cacheCheck"
    /\ IF cacheDir.downloads.present
       THEN IF is_cache_url_mismatch(cacheDir, envVars)
            THEN /\ cacheDir' = [downloads |-> NoFile, metadata |-> NoFile]
                 /\ procs' = [StartUpdate(procs, "entry") EXCEPT !.entry = "update"]
                 /\ UNCHANGED htmlDir
            ELSE /\ htmlDir' =
                       [htmlDir EXCEPT
                          !.downloads = cacheDir.downloads,
                          !.metadata = IF cacheDir.metadata.present
                                       THEN cacheDir.metadata ELSE @]
                 /\ \E stale \in IF cacheDir.metadata.present THEN BOOLEAN
                                 ELSE {TRUE} :
                       procs' = [procs EXCEPT !.needsUpdate = stale,
                                              !.entry = "spawn"]
                 /\ UNCHANGED cacheDir
       ELSE /\ procs' = [StartUpdate(procs, "entry") EXCEPT !.entry = "update"]
            /\ UNCHANGED <<htmlDir, cacheDir>>
    /\ UNCHANGED <<browser, envVars, configDir>>

\* '( ... ) &': the background updater starts
EntrySpawnUpdater ==
    /\ procs.entry = "spawn"
    /\ procs' = [procs EXCEPT !.entry = "execNginx",
                              !.updater = IF procs.needsUpdate THEN "immediate"
                                          ELSE "sleep"]
    /\ UNCHANGED <<browser, envVars, configDir, htmlDir, cacheDir>>

\* exec nginx -g "daemon off;"
EntryExecNginx ==
    /\ procs.entry = "execNginx"
    /\ procs' = [procs EXCEPT !.entry = "nginx", !.nginx = TRUE]
    /\ UNCHANGED <<browser, envVars, configDir, htmlDir, cacheDir>>

\* the updater's immediate update of a stale cache
UpdaterImmediate ==
    /\ procs.updater = "immediate"
    /\ procs' = [StartUpdate(procs, "updater") EXCEPT !.updater = "update"]
    /\ UNCHANGED <<browser, envVars, configDir, htmlDir, cacheDir>>

\* the updater's sleep ends: the scheduled update
UpdaterWake ==
    /\ procs.updater = "sleep"
    /\ procs.fetched < MaxUpdates
    /\ procs' = [StartUpdate(procs, "updater") EXCEPT !.updater = "update"]
    /\ UNCHANGED <<browser, envVars, configDir, htmlDir, cacheDir>>

\* a data directory with the temp file left in place
RemoveTempSkipped(dir) == dir

\* rm -f "$TEMP_FILE"
RemoveTemp(dir) == [dir EXCEPT !.tmp = NoFile]

\* fetch_blobs.py wrote the temp file: a list that parses or one that does not
UpdateFetched ==
    /\ procs.update = "fetch"
    /\ \E valid \in BOOLEAN :
          htmlDir' = [htmlDir EXCEPT
                        !.tmp = DataFile(procs.fetched, envVars.BASE_URL, valid)]
    /\ procs' = [procs EXCEPT !.update = "validate"]
    /\ UNCHANGED <<browser, envVars, configDir, cacheDir>>

\* fetch_blobs.py failed, with or without a partly written temp file
UpdateFetchFails ==
    /\ procs.update = "fetch"
    /\ \E partial \in {NoFile, DataFile(procs.fetched, envVars.BASE_URL, FALSE)} :
          htmlDir' = RemoveTemp([htmlDir EXCEPT !.tmp = partial])
    /\ procs' = UpdateExits(procs, 1)
    /\ UNCHANGED <<browser, envVars, configDir, cacheDir>>

\* 'Validate JSON'
UpdateValidate ==
    /\ procs.update = "validate"
    /\ IF htmlDir.tmp.valid
       THEN /\ procs' = [procs EXCEPT !.update = "move"]
            /\ UNCHANGED htmlDir
       ELSE /\ htmlDir' = RemoveTemp(htmlDir)
            /\ procs' = UpdateExits(procs, 1)
    /\ UNCHANGED <<browser, envVars, configDir, cacheDir>>

\* mv "$TEMP_FILE" "$JSON_FILE"
UpdateMove ==
    /\ procs.update = "move"
    /\ htmlDir' = [htmlDir EXCEPT !.downloads = htmlDir.tmp, !.tmp = NoFile]
    /\ procs' = [procs EXCEPT !.update = "metadata"]
    /\ UNCHANGED <<browser, envVars, configDir, cacheDir>>

\* 'Write metadata file with update timestamp and source URL'
UpdateMetadata ==
    /\ procs.update = "metadata"
    /\ htmlDir' = [htmlDir EXCEPT
                     !.metadata = DataFile(procs.fetched, envVars.BASE_URL, TRUE)]
    /\ procs' = [procs EXCEPT !.update = "cache"]
    /\ UNCHANGED <<browser, envVars, configDir, cacheDir>>

\* 'Copy to cache directory for persistence across container restarts'
UpdateCache ==
    /\ procs.update = "cache"
    /\ cacheDir' = [downloads |-> htmlDir.downloads, metadata |-> htmlDir.metadata]
    /\ procs' = UpdateExits(procs, 0)
    /\ UNCHANGED <<browser, envVars, configDir, htmlDir>>

\* the cache directories a container may be started with: written by an
\* earlier container for this BASE_URL ("u") or another, with or without
\* metadata, by a version that recorded the baseUrl or one that did not
CacheDirs ==
    { [downloads |-> NoFile, metadata |-> NoFile],
      [downloads |-> DataFile(0, "u", TRUE), metadata |-> NoFile],
      [downloads |-> DataFile(0, "w", TRUE), metadata |-> NoFile] }
        \cup UNION { { [downloads |-> DataFile(0, from, TRUE),
                        metadata |-> DataFile(0, baseUrl, TRUE)] :
                          baseUrl \in {from, ""} } : from \in {"u", "w"} }

ContainerInit ==
    /\ BrowserClosed
    /\ ContainerCreated
    /\ envVars \in {[BASE_URL |-> b] @@ DOCKERFILE_DEFAULTS : b \in {"", "u"}}
    /\ configDir \in { [config |-> ConfigFile(state, "", "", "", ""), logos |-> {}] :
                         state \in {"missing", "invalid"} }
    /\ cacheDir \in CacheDirs

EntryStep ==
    \/ EntryValidate
    \/ EntryDefaultConfig
    \/ EntryGenerateConfig
    \/ EntryCacheCheck
    \/ EntrySpawnUpdater
    \/ EntryExecNginx

ContainerNext ==
    \/ EntryValidate
    \/ EntryDefaultConfig
    \/ EntryGenerateConfig
    \/ EntryCacheCheck
    \/ EntrySpawnUpdater
    \/ EntryExecNginx
    \/ UpdaterImmediate
    \/ UpdaterWake
    \/ UpdateFetched
    \/ UpdateFetchFails
    \/ UpdateValidate
    \/ UpdateMove
    \/ UpdateMetadata
    \/ UpdateCache

SpecContainer == ContainerInit /\ [][ContainerNext]_vars

\* the shell runs the entrypoint's commands one after the other: a command
\* of the entrypoint that can run does run
SpecContainerLive == SpecContainer /\ WF_vars(EntryStep)

\* the cache directory holds a list fetched from the BASE_URL of this start
CacheUsable ==
    /\ cacheDir.downloads.present
    /\ cacheDir.downloads.url = envVars.BASE_URL

\* the list of the cache directory (of an earlier container) is the one served
CachedListServed == htmlDir.downloads = DataFile(0, envVars.BASE_URL, TRUE)

\* C23: with a cached list for this BASE_URL, the cache check copies it to the
\* served directory and goes on to start nginx without running an update;
\* nginx then starts whatever the updater does; while the cached list is
\* served, updates are run by the background updater only; and no step
\* (a failed update included) stops nginx or removes the served list.
C23_CachedListServedAtOnce ==
    /\ [][(procs.entry = "cacheCheck" /\ procs'.entry # "cacheCheck" /\ CacheUsable)
            => /\ htmlDir'.downloads = cacheDir.downloads
               /\ procs'.entry = "spawn"
               /\ procs'.update = "none"]_vars
    /\ ((procs.entry = "cacheCheck" /\ CacheUsable) ~> procs.nginx)
    /\ [](CachedListServed /\ procs.update # "none" => procs.caller = "updater")
    /\ [][/\ procs.nginx => procs'.nginx
          /\ htmlDir.downloads.present => /\ htmlDir'.downloads.present
                                          /\ htmlDir'.downloads.valid]_vars

\* nginx serves the cached list after a background update that failed
C23_Witness ==
    /\ procs.nginx
    /\ CachedListServed
    /\ procs.needsUpdate
    /\ procs.fetched = 1
    /\ procs.update = "none"
    /\ procs.updater = "sleep"

-----------------------------------------------------------------------------
(* Search favorites: any record list of the pool is indexed and rendered    *)
(* with one search favorite in the configuration, which is then clicked.    *)

\* the queries of the search favorite: 'pdf', '^a', and the '\.pdf$' of the
\* README's example configuration
ConfiguredQueries ==
    { <<"p", "d", "f">>, <<"^", "a">>, <<"\\", ".", "p", "d", "f", "$">> }

FavSearchInit ==
    /\ allDownloads \in SmallLists
    /\ folderTree = EmptyMap
    /\ fileTypeCache = buildFileTypeCache(<< >>)
    /\ currentPath \in {<< >>, <<<<"a">>>>}
    /\ searchInput = << >>
    /\ activeFileTypes \in {{}, DefaultFileTypes}
    /\ sortBy = "date-desc"
    /\ currentPage = 1
    /\ searchTimeout = FALSE
    /\ filterDropdown = [built |-> FALSE, types |-> {}]
    /\ listEl = Loading
    /\ pagination = PaginationHidden
    /\ \E query \in ConfiguredQueries :
          favoritesConfig = <<Favorite("search", << >>, query, << >>, 0, "asc")>>
    /\ favoritesTree = << >>
    /\ startPc = "index"
    /\ settingsPc = "idle"
    /\ pageUrl = [q |-> << >>, path |-> Join(currentPath)]
    /\ filteredDownloads = << >>
    /\ searchTrackTimeout = FALSE
    /\ pendingTimers = 0
    /\ searchEvent = NoEvent
    /\ ContainerServing

FavSearchNext == BuildIndex \/ Display \/ FavoriteSearchClick

SpecFavSearch == FavSearchInit /\ [][FavSearchNext]_vars

\* the records a regex search for the query finds: not of zero length, of a
\* selected type, the name matched by the query
QueryMatches(query) ==
    { allDownloads[i] : i \in { j \in 1..Len(allDownloads) :
          /\ allDownloads[j].Length > 0
          /\ activeFileTypes # {} =>
                getFileTypeInfo(fileTypeCache, allDownloads[j]) \in activeFileTypes
          /\ RegexTest(query, allDownloads[j].Name) } }

\* C24: after a click on the search favorite of the configuration the search
\* text is the configured query, the path is the root, and the records
\* rendered are the records the query matches as a regular expression.
C24_SearchFavoriteRunsQuery ==
    searchInput # << >> =>
        /\ searchInput = favoritesConfig[1].query
        /\ currentPath = << >>
        /\ RenderedRecords = QueryMatches(favoritesConfig[1].query)

-----------------------------------------------------------------------------
(* The file type cache: from the empty list, record lists in which two      *)
(* records may share a Url are loaded one after the other, and their        *)
(* records are looked up.                                                   *)

\* a record with the Url of the first record of the pool under another name
SharedUrlRec ==
    [Pool[2] EXCEPT !.Url = Pool[1].Url]

\* the lists of at most MaxRecords distinct records of the pool and the
\* record above
CacheLists ==
    UNION { {l \in [1..n -> Range(Pool) \cup {SharedUrlRec}] :
                \A i, j \in 1..n : i < j => l[i] # l[j]} : n \in 0..MaxRecords }

CacheInit ==
    /\ allDownloads = << >>
    /\ folderTree = buildFolderTree(allDownloads)
    /\ fileTypeCache = buildFileTypeCache(allDownloads)
    /\ currentPath = << >>
    /\ searchInput = << >>
    /\ activeFileTypes = DefaultFileTypes
    /\ sortBy = "date-desc"
    /\ currentPage = 1
    /\ searchTimeout = FALSE
    /\ filterDropdown = [built |-> FALSE, types |-> {}]
    /\ listEl = Loading
    /\ pagination = PaginationHidden
    /\ favoritesConfig = << >>
    /\ favoritesTree = << >>
    /\ startPc = "cache"
    /\ settingsPc = "idle"
    /\ pageUrl = [q |-> << >>, path |-> << >>]
    /\ filteredDownloads = allDownloads
    /\ searchTrackTimeout = FALSE
    /\ pendingTimers = 0
    /\ searchEvent = NoEvent
    /\ ContainerServing

\* a load assigns its records: allDownloads = records; buildFolderTree()
Reload ==
    /\ \E records \in CacheLists : Install(records)
    /\ UNCHANGED <<container, analytics, pageUrl, favoritesConfig, favoritesTree,
                   currentPath, activeFileTypes, currentPage, sortBy, searchInput,
                   searchTimeout, filterDropdown, listEl, pagination, startPc,
                   settingsPc>>

\* getFileTypeInfo(download) for a record of the list
LookupType ==
    /\ \E i \in 1..Len(allDownloads) :
          fileTypeCache' = CacheAfterLookup(fileTypeCache, allDownloads[i])
    /\ UNCHANGED <<container, analytics, pageUrl, filteredDownloads, favoritesConfig,
                   favoritesTree, allDownloads, folderTree, currentPath,
                   activeFileTypes, currentPage, sortBy, searchInput, searchTimeout,
                   filterDropdown, listEl, pagination, startPc, settingsPc>>

CacheNext == Reload \/ LookupType

SpecCache == CacheInit /\ [][CacheNext]_vars

\* C25: getFileTypeInfo gives every record of the list the classification
\* of its Url, also a record that shares its Url with another, and the
\* cache holds entries for the Urls of the current list only.
C25_CacheIsTransparent ==
    /\ \A i \in 1..Len(allDownloads) :
          getFileTypeInfo(fileTypeCache, allDownloads[i])
              = ClassifyUrl(allDownloads[i].Url)
    /\ DOMAIN fileTypeCache = {allDownloads[i].Url : i \in 1..Len(allDownloads)}

\* two records of the list share a Url and the cache holds one entry for
\* both
C25_Witness ==
    /\ Len(allDownloads) = 3
    /\ SharedUrlRec \in Range(allDownloads)
    /\ Pool[1] \in Range(allDownloads)
    /\ Cardinality(DOMAIN fileTypeCache) = 2

-----------------------------------------------------------------------------
(* Typing into the search box: a short record list of the pool is loaded    *)
(* and shown at the root or in folder a; the user types, the debounce timer *)
(* and the tracking timer fire.                                             *)

\* the texts typed: they match names in folders, of empty files too
TypedTexts == { << >>, <<"p", "d", "f">>, <<"z", "i", "p">> }

\* the lists of fewer than MaxRecords records of the pool
SearchLists == UNION {ListsOfLen(n) : n \in 0..(MaxRecords - 1)}

SearchInit ==
    /\ allDownloads \in SearchLists
    /\ folderTree = buildFolderTree(allDownloads)
    /\ fileTypeCache = buildFileTypeCache(allDownloads)
    /\ currentPath \in {<< >>, <<<<"a">>>>}
    /\ searchInput = << >>
    /\ activeFileTypes = DefaultFileTypes
    /\ sortBy = "date-desc"
    /\ currentPage = 1
    /\ searchTimeout = FALSE
    /\ filterDropdown = updateFileTypeFilterCounts(allDownloads, fileTypeCache,
                                                   searchInput)
    /\ \E r \in {displayDownloads(allDownloads, folderTree, fileTypeCache,
                                  currentPath, activeFileTypes, 1, sortBy,
                                  searchInput, PaginationHidden)} :
          /\ listEl = r.list
          /\ pagination = r.pag
    /\ favoritesConfig = << >>
    /\ favoritesTree = << >>
    /\ startPc = "done"
    /\ settingsPc = "idle"
    /\ pageUrl = [q |-> << >>, path |-> Join(currentPath)]
    /\ filteredDownloads = allDownloads
    /\ searchTrackTimeout = FALSE
    /\ pendingTimers = 0
    /\ searchEvent = NoEvent
    /\ ContainerServing

\* 'input' on #searchInput with one of the texts above
SearchType == TypeText(TypedTexts)

SearchNext == SearchType \/ SearchTimerFires \/ SearchTrackFires

SpecSearch == SearchInit /\ [][SearchNext]_vars

\* the browser runs a timer that is due: the typing stops for 300 ms at
\* some time
SpecSearchLive == SpecSearch /\ WF_vars(SearchTimerFires)

\* the files a search for the text in the box displays
SearchDisplays ==
    filterDownloads(fileTypeCache, allDownloads, searchInput, activeFileTypes, TRUE)

\* C26: at most one debounce timer is pending; when it fires, no other is
\* left (the inputs since the last evaluation are evaluated once), and the
\* list rendered is the one of the text in the box, the text after the last
\* input; and a pending timer fires eventually.
C26_TypingIsDebounced ==
    /\ [](pendingTimers <= 1)
    /\ [][pendingTimers' < pendingTimers
            => /\ pendingTimers' = 0
               /\ listEl' = displayDownloads(allDownloads, folderTree, fileTypeCache,
                                             currentPath, activeFileTypes, 1, sortBy,
                                             searchInput, pagination).list]_vars
    /\ (pendingTimers > 0 ~> pendingTimers = 0)

\* the timer has fired after the typing of 'pdf' and the files found are
\* shown, the tracking timer still pending
C26_Witness ==
    /\ pendingTimers = 0
    /\ searchTrackTimeout
    /\ searchInput = <<"p", "d", "f">>
    /\ pageUrl.q = searchInput
    /\ listEl.kind = "items"
    /\ listEl.total = 2

\* C30: the resultCount of a blob-explorer:search event is the number of
\* files the search for the text displays, from any current folder.
C30_ResultCountIsDisplayed ==
    [][searchEvent' # searchEvent
         => searchEvent'.resultCount = Len(SearchDisplays)]_vars

-----------------------------------------------------------------------------
(* Folders listed in browse mode (SpecQuery) *)

\* what displayDownloads renders in the folder of the name given under the
\* current folder, with the type filter and sort option as they are
BrowseInto(folderName) ==
    displayDownloads(allDownloads, folderTree, fileTypeCache,
                     Append(currentPath, folderName), activeFileTypes, 1, sortBy,
                     << >>, pagination).list

\* C28: every folder the browse view of the current folder lists has a node
\* and, browsed with the same type filter, renders at least one item.
C28_NoDeadEndFolders ==
    (startPc = "done" /\ ToLowerCase(searchInput) = << >>)
        => \A folderName \in RenderedFolders :
              /\ BrowseInto(folderName).kind = "items"
              /\ Len(BrowseInto(folderName).items) >= 1

\* folder a is browsed with the type filter ZIP and lists its folder c (which
\* holds a ZIP file and an empty one) and not its folder b
C28_Witness ==
    /\ startPc = "done"
    /\ searchInput = << >>
    /\ currentPath = <<<<"a">>>>
    /\ activeFileTypes = {ZIP}
    /\ RenderedFolders = {<<"c">>}
    /\ <<"b">> \in folderTree[<<"a">>].folders

-----------------------------------------------------------------------------
(* The page URL and the view (Spec) *)

\* the search text and path initializeUrlState sets from the URL given
initializeUrlState(location) ==
    [search |-> location.q,
     path |-> IF location.q # << >> THEN << >>
              ELSE SelectSeq(Split(location.path), LAMBDA seg : Len(seg) > 0)]

\* C29: whenever no evaluation of typed text is pending, the page URL has q
\* equal to the search text and no path when there is a search text, and no
\* q and the joined currentPath (nothing at the root) otherwise; and a reload
\* of that URL restores the search text and currentPath.
C29_UrlEncodesView ==
    pendingTimers = 0 =>
        /\ pageUrl = [q |-> searchInput,
                      path |-> IF searchInput # << >> THEN << >>
                               ELSE Join(currentPath)]
        /\ initializeUrlState(pageUrl) = [search |-> searchInput, path |-> currentPath]

====
